---------------------------- MODULE Spec2Model ----------------------------
(***************************************************************************)
(* A model of the MEAMA campaign simulation (maxxxara/meama-simulation).   *)
(*                                                                         *)
(* Units.  Dates are day numbers, day 0 being 2025-09-01 (CAMPAIGN_START); *)
(* money is in cents (in thousandths of a unit in SpecOrder); campaign     *)
(* impact factors and prize increases are in thousandths (1000 = 1.0);     *)
(* the bounded behavioural scores are in hundredths (100 = 1.0);           *)
(* probabilities are in millionths.                                        *)
(*                                                                         *)
(* Specifications.                                                         *)
(*   Spec        the daily driver (CustomerModel) and its agents           *)
(*   SpecScores  the behavioural-score updaters of one customer            *)
(*   SpecOrder   the order generator                                       *)
(*   SpecImpact  generate_campaign_impact_factor                           *)
(*   SpecDecide  the purchase probability of decide_order_placement        *)
(***************************************************************************)
EXTENDS Integers, Sequences, FiniteSets, TLC

(***************************************************************************)
(* Bounds of the model.                                                    *)
(***************************************************************************)
\* The campaign window is cut down to its first CampaignLength days.
CampaignLength == 6
\* Orders the whole roster may place during one run.
MaxRunOrders == 2
\* Score updates applied in a row to one customer (SpecScores).
MaxScoreOps == 3
\* The largest days_passed handed to the score updaters (SpecScores).
MaxDaysPassed == 1
\* largest campaign order count handed to generate_campaign_impact_factor
MaxImpactOrders == 10
\* largest whole-number deviation of the number of order lines from the typical
MaxItemNoise == 1
MaxTickets == 2
\* orders generated in one run whose order ids are followed (SpecOrderIds)
MaxIdOrders == 3

(***************************************************************************)
(* config.py                                                               *)
(***************************************************************************)
CAMPAIGN_START == 0
CAMPAIGN_END == CAMPAIGN_START + CampaignLength - 1
ENABLE_CAMPAIGN_EFFECTS == TRUE
BASE_CAMPAIGN_IMPACT_FACTOR == 1300
CAMPAIGN_ENGAGEMENT_MULTIPLIER == 150
MAX_CAMPAIGN_IMPACT_FACTOR == 2000
SATISFACTION_DECAY_RATE == 2
SATISFACTION_RECOVERY_RATE == 5
PURCHASE_INTENT_DECAY_RATE == 1
PURCHASE_INTENT_BOOST_AFTER_BROWSE == 10


(***************************************************************************)
(* State.                                                                  *)
(***************************************************************************)
\* The daily driver (mesa/customer_model.py, mesa/customer_agent.py).
VARIABLES
    customers,              \* CustomerModel.customers: the loaded Customer records
    agents,                 \* CustomerModel.agents, in insertion order
    current_date,
    new_customers_count,
    generated_revenue,
    received_orders_count,
    datacollected,          \* the model-level rows DataCollector.collect has recorded
    pc,                     \* where the driver is: "idle", or inside new_day "agents"
    idx,                    \* inside agents.do("step"): the next agent to step
    status,                 \* "running", or "aborted" once an exception left step()
    step_result,            \* what the last finished step() returned
    steps,                  \* step() calls that ran new_day to its end
    day_log,                \* what new_day has done so far in the current day
    draw_pool               \* the weighted list of the last prize draw

simVars == <<customers, agents, current_date, new_customers_count, generated_revenue,
             received_orders_count, datacollected, pc, idx, status, step_result,
             steps, day_log, draw_pool>>

\* The behavioural scores of one customer (tools/tools.py).
VARIABLES
    scores,         \* the score fields of one Customer record
    scores_op,      \* the updater applied last
    scores_ops      \* how many updaters have been applied

scoreVars == <<scores, scores_op, scores_ops>>

\* One call of generate_campaign_impact_factor: its arguments and result.
VARIABLES impact
\* One comparison of decide_order_placement under two impact factors.
VARIABLES decide
\* One call of generate_customer_order.
VARIABLES gen
\* One call of get_daily_prize and one of get_prize_winner.
VARIABLES draw
\* One call of decide_new_customer_acquisition.
VARIABLES acq
\* One classification of a customer by each lifecycle classifier.
VARIABLES life
\* The order ids of the orders generated in one run, in order of generation.
VARIABLES run_ids

vars == <<simVars, scoreVars, impact, decide, gen, draw, acq, life, run_ids>>

notSim == <<scoreVars, impact, decide, gen, draw, acq, life, run_ids>>
notScores == <<simVars, impact, decide, gen, draw, acq, life, run_ids>>
notImpact == <<simVars, scoreVars, decide, gen, draw, acq, life, run_ids>>
notDecide == <<simVars, scoreVars, impact, gen, draw, acq, life, run_ids>>
notGen == <<simVars, scoreVars, impact, decide, draw, acq, life, run_ids>>
notDraw == <<simVars, scoreVars, impact, decide, gen, acq, life, run_ids>>
notAcq == <<simVars, scoreVars, impact, decide, gen, draw, life, run_ids>>
notLife == <<simVars, scoreVars, impact, decide, gen, draw, acq, run_ids>>
notRunIds == <<simVars, scoreVars, impact, decide, gen, draw, acq, life>>

\* What a specification leaves alone.
SimIdle ==
    /\ customers = <<>> /\ agents = <<>> /\ current_date = 0
    /\ new_customers_count = 0 /\ generated_revenue = 0 /\ received_orders_count = 0
    /\ datacollected = <<>> /\ pc = "off" /\ idx = 0 /\ status = "off"
    /\ step_result = "none" /\ steps = 0 /\ day_log = <<>> /\ draw_pool = <<>>
ScoresIdle == scores = <<>> /\ scores_op = "off" /\ scores_ops = 0
ImpactIdle == impact = <<>>
DecideIdle == decide = <<>>
GenIdle == gen = <<>>
DrawIdle == draw = <<>>
AcqIdle == acq = <<>>
LifeIdle == life = <<>>
RunIdsIdle == run_ids = <<>>

Min(a, b) == IF a <= b THEN a ELSE b
Max(a, b) == IF a >= b THEN a ELSE b

(***************************************************************************)
(* The calendar of 2025, by day number.                                    *)
(***************************************************************************)
DaysBeforeMonth == <<0, 31, 59, 90, 120, 151, 181, 212, 243, 273, 304, 334, 365>>
\* Day of the year of day d in the non-leap years 2025..2027.
DayOfYear(d) == ((d + 243) % 365) + 1
Month(d) == CHOOSE m \in 1..12 :
               DaysBeforeMonth[m] < DayOfYear(d) /\ DayOfYear(d) <= DaysBeforeMonth[m + 1]
DayOfMonth(d) == DayOfYear(d) - DaysBeforeMonth[Month(d)]
\* datetime.weekday(): 0 is Monday; 2025-09-01 is a Monday.
Weekday(d) == d % 7

(***************************************************************************)
(* tools/get_prizes.py                                                     *)
(***************************************************************************)
NoPrize == [prize |-> "None", campaign_impact_increase |-> 0]

\* The weekday ladder tried before the two fixed dates.
get_daily_prize_weekday_first(d) ==
    IF Weekday(d) = 0 THEN [prize |-> "1000 GEL", campaign_impact_increase |-> 500]
    ELSE IF Weekday(d) = 1 THEN [prize |-> "1500 GEL", campaign_impact_increase |-> 500]
    ELSE IF Weekday(d) = 2 THEN [prize |-> "2000 GEL", campaign_impact_increase |-> 600]
    ELSE IF Weekday(d) = 3 THEN [prize |-> "3000 GEL", campaign_impact_increase |-> 700]
    ELSE IF Weekday(d) = 4 THEN [prize |-> "3500 GEL", campaign_impact_increase |-> 700]
    ELSE IF Month(d) = 10 /\ DayOfMonth(d) = 15
      THEN [prize |-> "BMW M4", campaign_impact_increase |-> 200]
    ELSE IF Month(d) = 11 /\ DayOfMonth(d) = 30
      THEN [prize |-> "CyberTruck", campaign_impact_increase |-> 0]
    ELSE NoPrize

get_daily_prize(d) ==
    IF Month(d) = 10 /\ DayOfMonth(d) = 15
      THEN [prize |-> "BMW M4", campaign_impact_increase |-> 200]
    ELSE IF Month(d) = 11 /\ DayOfMonth(d) = 30
      THEN [prize |-> "CyberTruck", campaign_impact_increase |-> 0]
    ELSE IF Weekday(d) = 0 THEN [prize |-> "1000 GEL", campaign_impact_increase |-> 500]
    ELSE IF Weekday(d) = 1 THEN [prize |-> "1500 GEL", campaign_impact_increase |-> 500]
    ELSE IF Weekday(d) = 2 THEN [prize |-> "2000 GEL", campaign_impact_increase |-> 600]
    ELSE IF Weekday(d) = 3 THEN [prize |-> "3000 GEL", campaign_impact_increase |-> 700]
    ELSE IF Weekday(d) = 4 THEN [prize |-> "3500 GEL", campaign_impact_increase |-> 700]
    ELSE NoPrize

RECURSIVE Repeat(_, _)
Repeat(x, n) == IF n <= 0 THEN <<>> ELSE <<x>> \o Repeat(x, n - 1)

\* The weighted list of get_prize_winner: every customer with tickets, in list
\* order, once per ticket.
\* A pool that holds every ticket holder once, whatever its ticket count.
RECURSIVE weighted_customers_one_each(_)
weighted_customers_one_each(cs) ==
    IF cs = <<>> THEN <<>>
    ELSE (IF Head(cs).tickets_count > 0 THEN <<Head(cs).id>> ELSE <<>>)
         \o weighted_customers_one_each(Tail(cs))

RECURSIVE weighted_customers(_)
weighted_customers(cs) ==
    IF cs = <<>> THEN <<>>
    ELSE (IF Head(cs).tickets_count > 0
            THEN Repeat(Head(cs).id, Head(cs).tickets_count) ELSE <<>>)
         \o weighted_customers(Tail(cs))

(***************************************************************************)
(* tools/tools.py: generate_campaign_impact_factor                         *)
(***************************************************************************)
RECURSIVE ISqrtIn(_, _, _)
ISqrtIn(x, lo, hi) ==
    IF lo >= hi THEN lo
    ELSE LET mid == (lo + hi + 1) \div 2
         IN  IF mid * mid <= x THEN ISqrtIn(x, mid, hi) ELSE ISqrtIn(x, lo, mid - 1)
\* math.sqrt(n) in thousandths, for n < 2000.
SqrtMilli(n) == ISqrtIn(n * 1000000, 0, 46340)

\* Mutant of generate_campaign_impact_factor: dates after CAMPAIGN_END are
\* treated as campaign days.
generate_campaign_impact_factor_open_end(enabled, current_customer_impact_factor, campaign_orders_count, d) ==
    IF ~enabled \/ d < CAMPAIGN_START THEN 1000
    ELSE LET engagement_boost ==
                 IF campaign_orders_count > 0
                   THEN (SqrtMilli(campaign_orders_count) * CAMPAIGN_ENGAGEMENT_MULTIPLIER) \div 1000
                   ELSE 0
         IN  Max(Min(current_customer_impact_factor + engagement_boost,
                     MAX_CAMPAIGN_IMPACT_FACTOR), 1000)

\* enabled is config.ENABLE_CAMPAIGN_EFFECTS as read at the call.
generate_campaign_impact_factor(enabled, current_customer_impact_factor, campaign_orders_count, d) ==
    IF ~enabled THEN 1000
    ELSE IF d < CAMPAIGN_START \/ d > CAMPAIGN_END THEN 1000
    ELSE LET engagement_boost ==
                 IF campaign_orders_count > 0
                   THEN (SqrtMilli(campaign_orders_count) * CAMPAIGN_ENGAGEMENT_MULTIPLIER) \div 1000
                   ELSE 0
             dynamic_factor == current_customer_impact_factor + engagement_boost
             fatigue_factor == 1000 - (campaign_orders_count - 8) * 20
             fatigued == IF campaign_orders_count > 8
                           THEN (dynamic_factor * Max(fatigue_factor, 800)) \div 1000
                           ELSE dynamic_factor
         IN  Max(Min(fatigued, MAX_CAMPAIGN_IMPACT_FACTOR), 1000)

(***************************************************************************)
(* Lifecycle classification: the agent's own classifier                    *)
(* (CustomerAgent.update_lifecycle_state) and the attribute updater's      *)
(* (tools.update_customer_lifecycle_state).                                *)
(***************************************************************************)
SeqMax(s) == CHOOSE x \in {s[k] : k \in DOMAIN s} : \A k \in DOMAIN s : s[k] <= x
OrderDates(orders) == [k \in DOMAIN orders |-> orders[k].order_date]
\* the number of orders with first <= order_date < before
CountOrders(orders, first, before) ==
    Cardinality({k \in DOMAIN orders :
                    first <= orders[k].order_date /\ orders[k].order_date < before})

RECURSIVE SumSpent(_)
SumSpent(orders) ==
    IF orders = <<>> THEN 0 ELSE Head(orders).total_spent + SumSpent(Tail(orders))

\* Returns the agent with lifecycle_state and days_since_last_order refreshed.
update_lifecycle_state(a, current) ==
    IF a.historical_orders = <<>>
      THEN [a EXCEPT !.lifecycle_state =
                         IF a.is_new_customer THEN "ACTIVE" ELSE "DORMANT"]
    ELSE
      LET last_order_date == SeqMax(OrderDates(a.historical_orders))
          days == current - last_order_date
          six_months_ago == current - 180
          older_period == current - 360
          recent == CountOrders(a.historical_orders, six_months_ago,
                                SeqMax(OrderDates(a.historical_orders)) + 1)
          older == CountOrders(a.historical_orders, older_period, six_months_ago)
          state == IF days > 180 THEN "DORMANT"
                   ELSE IF recent >= 10 /\ a.avg_order_value > 5000 THEN "CHAMPION"
                   ELSE IF recent >= 3
                          THEN (IF 2 * older > 3 * recent THEN "AT_RISK" ELSE "ACTIVE")
                   ELSE "ACTIVE"
      IN  [a EXCEPT !.days_since_last_order = days, !.lifecycle_state = state]

\* order_frequency = len / max(days_since_created / 30, 1) is compared with 0.5
\* and 1.0 after multiplying through by 30 * max(...).
update_customer_lifecycle_state(orders, created_at, current) ==
    IF orders = <<>> THEN "ACTIVE"
    ELSE
      LET last_order_date == orders[Len(orders)].order_date
          days_since_last_order == current - last_order_date
          total_spent == SumSpent(orders)
          span == Max(current - created_at, 30)
      IN  IF days_since_last_order > 180 THEN "DORMANT"
          ELSE IF days_since_last_order > 90 /\ 60 * Len(orders) < span THEN "AT_RISK"
          ELSE IF total_spent > 5000 * Len(orders) /\ 30 * Len(orders) > span THEN "CHAMPION"
          ELSE "ACTIVE"

\* CustomerAgent.calculate_churn_probability, in millionths.
base_churn_probability == 1000
ChurnLifecycleMultiplier(state) ==
    CASE state = "CHAMPION" -> 200
      [] state = "ACTIVE" -> 1000
      [] state = "AT_RISK" -> 3000
      [] state = "DORMANT" -> 5000

calculate_churn_probability(a) ==
    LET base == (base_churn_probability * ChurnLifecycleMultiplier(a.lifecycle_state)) \div 1000
        aged == IF a.days_since_last_order > 90
                  THEN (base * (365 + a.days_since_last_order)) \div 365
                  ELSE base
        fatigued == IF a.new_order_count > 5 /\ a.campaign_impact_factor < 1200
                      THEN (aged * 3) \div 2 ELSE aged
    IN  Min(fatigued, 50000)

LifecyclePurchaseMultiplier(state) ==
    CASE state = "CHAMPION" -> 1300
      [] state = "ACTIVE" -> 1000
      [] state = "AT_RISK" -> 700
      [] state = "DORMANT" -> 300

(***************************************************************************)
(* The daily driver: mesa/customer_model.py and mesa/customer_agent.py     *)
(***************************************************************************)
Order(d, total) == [order_date |-> d, total_spent |-> total]

Customer(id, orders, spending, average, total, tickets) ==
    [id |-> id, historical_purchase_frequency |-> orders,
     historical_spending |-> spending, average_order_value |-> average,
     total_orders |-> total, is_new_customer |-> FALSE, tickets_count |-> tickets,
     lifecycle_state |-> "ACTIVE"]

\* The rosters a run is started with.  Each loaded record satisfies
\* average_order_value = historical_spending / total_orders.
Rosters ==
    { \* a ticket holder without history and a frequent high-value customer
      << Customer(1, <<>>, 0, 0, 0, 1),
         Customer(2, <<Order(-20, 3000), Order(-5, 9000)>>, 12000, 6000, 2, 0) >>,
      \* a customer whose last order is over 180 days old and a ticket holder
      << Customer(1, <<Order(-200, 6000)>>, 6000, 6000, 1, 0),
         Customer(2, <<Order(-40, 2500)>>, 2500, 2500, 1, 2) >>,
      \* nobody holds a ticket
      << Customer(1, <<>>, 0, 0, 0, 0) >> }

\* The totals generate_customer_order may return in a run (see SpecOrder).
OrderTotals == {1250, 7400}

\* CustomerAgent.__init__
CustomerAgent(c) ==
    [customer_id |-> c.id,
     historical_spending |-> c.historical_spending,
     avg_order_value |-> c.average_order_value,
     total_orders |-> c.total_orders,
     historical_orders |-> c.historical_purchase_frequency,
     is_new_customer |-> c.is_new_customer,
     tickets_count |-> c.tickets_count,
     lifecycle_state |-> c.lifecycle_state,
     campaign_impact_factor |-> BASE_CAMPAIGN_IMPACT_FACTOR,
     hasWonImpactFactor |-> 1000,
     prize_wins |-> <<>>,
     new_order_count |-> 0,
     is_churned |-> FALSE,
     days_since_last_order |-> 0]

\* CustomerModel.__init__
Init ==
    /\ ScoresIdle /\ ImpactIdle /\ DecideIdle /\ GenIdle /\ DrawIdle /\ AcqIdle /\ LifeIdle /\ RunIdsIdle
    /\ customers \in Rosters
    /\ agents = [k \in DOMAIN customers |-> CustomerAgent(customers[k])]
    /\ current_date = CAMPAIGN_START
    /\ new_customers_count = 0
    /\ generated_revenue = 0
    /\ received_orders_count = 0
    /\ datacollected = <<>>
    /\ pc = "idle"
    /\ idx = 0
    /\ status = "running"
    /\ step_result = "none"
    /\ steps = 0
    /\ day_log = <<>>
    /\ draw_pool = <<>>

LogEntry(op, id, outcome) == [op |-> op, id |-> id, outcome |-> outcome]

\* Mutant of Churned: the churn flag is not consulted.
ChurnedIgnored(a) == FALSE

\* "if not self.is_churned: ... else: return"
Churned(a) == a.is_churned

\* float division, kept to the cent
Div(a, b) == a \div b

\* The prize applied to the winner's agent (customer_model.py, new_day).
\* An award that raises the campaign impact factor only.
ApplyPrizeToFactorOnly(a, prize) ==
    [a EXCEPT !.campaign_impact_factor = @ + prize.campaign_impact_increase]

ApplyPrize(a, prize) ==
    [a EXCEPT !.campaign_impact_factor = @ + prize.campaign_impact_increase,
              !.hasWonImpactFactor = @ + prize.campaign_impact_increase,
              !.prize_wins = Append(@, prize.prize)]

\* self.agents.select(lambda agent: agent.customer_id == prize_winner.id)
SelectAgents(winner_id) == {k \in DOMAIN agents : agents[k].customer_id = winner_id}
FirstOf(S) == CHOOSE k \in S : \A j \in S : k <= j

\* step() up to agents.do("step"): the guard of step(), get_daily_prize and, on a
\* prize day, get_prize_winner (which raises when nobody holds a ticket) and the
\* award.  The draw reads CustomerModel.customers, the loaded records.
AwardPrize ==
    /\ pc = "idle" /\ status = "running"
    /\ current_date <= CAMPAIGN_END
    /\ LET daily_prize == get_daily_prize(current_date)
           pool == weighted_customers(customers)
       IN  IF daily_prize = NoPrize
             THEN /\ day_log' = <<LogEntry("prize", 0, "no_prize")>>
                  /\ pc' = "agents" /\ idx' = 1
                  /\ UNCHANGED <<agents, status, draw_pool>>
           ELSE IF pool = <<>>
             THEN /\ day_log' = <<LogEntry("prize", 0, "no_eligible_customer")>>
                  /\ status' = "aborted"
                  /\ UNCHANGED <<agents, pc, idx, draw_pool>>
           ELSE \E k \in DOMAIN pool :
                  LET found == SelectAgents(pool[k])
                  IN  /\ agents' = IF found = {} THEN agents
                                   ELSE [agents EXCEPT ![FirstOf(found)] =
                                                          ApplyPrize(@, daily_prize)]
                      /\ day_log' = <<LogEntry("prize", pool[k], daily_prize.prize)>>
                      /\ draw_pool' = pool
                      /\ pc' = "agents" /\ idx' = 1
                      /\ UNCHANGED status
    /\ UNCHANGED <<customers, current_date, new_customers_count, generated_revenue,
                   received_orders_count, datacollected, step_result, steps>>
    /\ UNCHANGED notSim

\* The daily refresh of a participating agent: the campaign impact factor and
\* the lifecycle state synced back from the rebuilt Customer record, whose
\* created_at is the current date.
RefreshAgent(a, current) ==
    LET adjusted_campaign_impact ==
            (a.campaign_impact_factor * LifecyclePurchaseMultiplier(a.lifecycle_state)) \div 1000
    IN  [a EXCEPT !.campaign_impact_factor =
                      generate_campaign_impact_factor(ENABLE_CAMPAIGN_EFFECTS,
                          adjusted_campaign_impact, a.new_order_count, current),
                  !.lifecycle_state =
                      update_customer_lifecycle_state(a.historical_orders, current, current)]

\* "if will_order:" up to the call of generate_customer_order
\* Two tickets for one order.
TakeTwoTickets(a) ==
    [a EXCEPT !.tickets_count = @ + 2, !.days_since_last_order = 0]

TakeTicket(a) ==
    [a EXCEPT !.tickets_count = @ + 1, !.days_since_last_order = 0]

\* Mutant of RecordOrder: the average is taken before the order is counted.
RecordOrderStaleAverage(a, new_order) ==
    [a EXCEPT !.historical_orders = Append(@, new_order),
              !.historical_spending = @ + new_order.total_spent,
              !.avg_order_value = Div(a.historical_spending + new_order.total_spent,
                                      Max(a.total_orders, 1)),
              !.total_orders = @ + 1,
              !.new_order_count = @ + 1]

\* The order is recorded without counting it in new_order_count.
RecordOrderUncounted(a, new_order) ==
    [a EXCEPT !.historical_orders = Append(@, new_order),
              !.historical_spending = @ + new_order.total_spent,
              !.total_orders = @ + 1,
              !.avg_order_value = Div(a.historical_spending + new_order.total_spent,
                                      a.total_orders + 1)]

\* the agent's bookkeeping after generate_customer_order has returned new_order
RecordOrder(a, new_order) ==
    [a EXCEPT !.historical_orders = Append(@, new_order),
              !.historical_spending = @ + new_order.total_spent,
              !.total_orders = @ + 1,
              !.avg_order_value = Div(a.historical_spending + new_order.total_spent,
                                      a.total_orders + 1),
              !.new_order_count = @ + 1]

\* The random outcomes of one step of a participating agent.  random.random()
\* is in [0, 1): the churn draw can succeed whenever the probability is >= 0
\* and fail whenever it is < 1; decide_order_placement compares its draw with
\* a probability capped at 0.08 and so can answer either way;
\* generate_customer_order returns an order or raises ValueError (a product or
\* the catalog cannot be resolved).
StepOutcomes(a) ==
    {[kind |-> "churn", total |-> 0] : x \in {y \in {0} : calculate_churn_probability(a) >= 0}}
    \cup (IF calculate_churn_probability(a) < 1000000
            THEN {[kind |-> "no_order", total |-> 0], [kind |-> "order_failed", total |-> 0]}
                 \cup {[kind |-> "order", total |-> t] : t \in OrderTotals}
            ELSE {})

\* CustomerAgent.step, called by agents.do("step") for the agent at idx.
AgentStep ==
    /\ pc = "agents" /\ status = "running"
    /\ idx \in DOMAIN agents
    /\ LET a1 == update_lifecycle_state(agents[idx], current_date)
           id == agents[idx].customer_id
       IN  IF Churned(agents[idx])
             THEN /\ agents' = [agents EXCEPT ![idx] = a1]
                  /\ day_log' = Append(day_log, LogEntry("step", id, "churned"))
                  /\ idx' = idx + 1
                  /\ UNCHANGED <<generated_revenue, received_orders_count, status>>
           ELSE \E o \in StepOutcomes(a1) :
                  /\ o.kind \in {"order", "order_failed"} => received_orders_count < MaxRunOrders
                  /\ day_log' = Append(day_log, LogEntry("step", id, o.kind))
                  /\ CASE o.kind = "churn" ->
                            /\ agents' = [agents EXCEPT ![idx] = [a1 EXCEPT !.is_churned = TRUE]]
                            /\ idx' = idx + 1
                            /\ UNCHANGED <<generated_revenue, received_orders_count, status>>
                       [] o.kind = "no_order" ->
                            /\ agents' = [agents EXCEPT ![idx] = RefreshAgent(a1, current_date)]
                            /\ idx' = idx + 1
                            /\ UNCHANGED <<generated_revenue, received_orders_count, status>>
                       [] o.kind = "order_failed" ->
                            /\ agents' = [agents EXCEPT ![idx] =
                                              TakeTicket(RefreshAgent(a1, current_date))]
                            /\ status' = "aborted"
                            /\ UNCHANGED <<generated_revenue, received_orders_count, idx>>
                       [] o.kind = "order" ->
                            /\ agents' = [agents EXCEPT ![idx] =
                                              RecordOrder(TakeTicket(RefreshAgent(a1, current_date)),
                                                          Order(current_date, o.total))]
                            /\ generated_revenue' = generated_revenue + o.total
                            /\ received_orders_count' = received_orders_count + 1
                            /\ idx' = idx + 1
                            /\ UNCHANGED status
    /\ UNCHANGED <<customers, current_date, new_customers_count, datacollected, pc,
                   step_result, steps, draw_pool>>
    /\ UNCHANGED notSim

\* A day that is closed while the last agent of the roster is still to step.
EndDayBeforeLastAgent ==
    /\ pc = "agents" /\ status = "running"
    /\ idx = Len(agents)
    /\ datacollected' = Append(datacollected,
                               [new_customers_count |-> new_customers_count,
                                generated_revenue |-> generated_revenue,
                                received_orders_count |-> received_orders_count])
    /\ current_date' = current_date + 1
    /\ day_log' = day_log \o <<LogEntry("collect", 0, "row"), LogEntry("advance", 0, "date")>>
    /\ pc' = "idle"
    /\ idx' = 0
    /\ step_result' = "True"
    /\ steps' = steps + 1
    /\ UNCHANGED <<customers, agents, new_customers_count, generated_revenue,
                   received_orders_count, status, draw_pool>>
    /\ UNCHANGED notSim

\* new_day after agents.do("step"): datacollector.collect, then the date
\* advances and step() returns True.
EndDay ==
    /\ pc = "agents" /\ status = "running"
    /\ idx = Len(agents) + 1
    /\ datacollected' = Append(datacollected,
                               [new_customers_count |-> new_customers_count,
                                generated_revenue |-> generated_revenue,
                                received_orders_count |-> received_orders_count])
    /\ current_date' = current_date + 1
    /\ day_log' = day_log \o <<LogEntry("collect", 0, "row"), LogEntry("advance", 0, "date")>>
    /\ pc' = "idle"
    /\ idx' = 0
    /\ step_result' = "True"
    /\ steps' = steps + 1
    /\ UNCHANGED <<customers, agents, new_customers_count, generated_revenue,
                   received_orders_count, status, draw_pool>>
    /\ UNCHANGED notSim

\* step() once the campaign is over: returns False.
StepAfterEnd ==
    /\ pc = "idle" /\ status = "running"
    /\ current_date > CAMPAIGN_END
    /\ step_result' = "False"
    /\ UNCHANGED <<customers, agents, current_date, new_customers_count, generated_revenue,
                   received_orders_count, datacollected, pc, idx, status, steps,
                   day_log, draw_pool>>
    /\ UNCHANGED notSim

Next == AwardPrize \/ AgentStep \/ EndDay \/ StepAfterEnd

Spec == Init /\ [][Next]_vars

(***************************************************************************)
(* Claims about the daily driver, checked under Spec.                      *)
(***************************************************************************)
AgentIds == DOMAIN agents
LoggedToday(op, outcome) ==
    {k \in DOMAIN day_log : day_log[k].op = op /\ day_log[k].outcome = outcome}
LoggedOps(op) == {k \in DOMAIN day_log : day_log[k].op = op}
DayFinished == pc = "idle" /\ status = "running" /\ steps > 0

\* step() has nothing more to run: the campaign is over or an exception ended it
RunStopped == status = "aborted" \/ (pc = "idle" /\ current_date > CAMPAIGN_END)

\* C1, first part: a step() that returns True has advanced the date by exactly
\* one day, and nothing else moves the date.
C1_StepAdvancesOneDay ==
    [][IF steps' # steps
         THEN steps' = steps + 1 /\ current_date' = current_date + 1
         ELSE current_date' = current_date]_vars

\* C1, last part: once the date is past CAMPAIGN_END, step() returns False and
\* changes no model or agent state.
C1_QuietAfterEnd ==
    [][current_date > CAMPAIGN_END =>
          /\ step_result' = "False"
          /\ UNCHANGED <<customers, agents, current_date, new_customers_count,
                         generated_revenue, received_orders_count, datacollected>>]_vars

\* C1: starting at CAMPAIGN_START every successful step() advances the date by
\* one day, run_full_campaign ends after one step per day of the campaign with
\* the date on the first day after CAMPAIGN_END, and from then on step()
\* returns False and changes nothing.
C1_RunCompletesCampaign ==
    /\ C1_StepAdvancesOneDay
    /\ [](RunStopped => /\ status = "running"
                        /\ current_date = CAMPAIGN_END + 1
                        /\ steps = CampaignLength)
    /\ C1_QuietAfterEnd

\* C2: on every simulated day the driver runs the acquisition engine exactly
\* once, after the last agent step and before the date advances.
C2_AcquisitionRunsDaily ==
    DayFinished =>
        /\ Cardinality(LoggedOps("acquire")) = 1
        /\ \A k \in LoggedOps("acquire") :
              /\ \A j \in LoggedOps("step") : j < k
              /\ \A j \in LoggedOps("advance") : k < j

\* C3: the prize draw holds one entry per ticket the customer has now, the
\* tickets accrued by ordering during the run included.
PoolEntries(id) == Cardinality({k \in DOMAIN draw_pool : draw_pool[k] = id})
\* the draw of the day has just been made and no agent has stepped yet
DrawnToday ==
    /\ pc = "agents" /\ status = "running" /\ Len(day_log) = 1
    /\ LoggedToday("prize", "no_prize") = {}
C3_DrawUsesCurrentTickets ==
    DrawnToday =>
        \A k \in AgentIds :
            PoolEntries(agents[k].customer_id) = agents[k].tickets_count

\* C4: churn is final.  A churned agent stays churned, its tickets, order
\* counts, history and spending never change again, and its step adds nothing
\* to the model's revenue and order counters.
C4_ChurnIsFinal ==
    [][\A k \in AgentIds :
          agents[k].is_churned =>
             /\ agents'[k].is_churned
             /\ agents'[k].tickets_count = agents[k].tickets_count
             /\ agents'[k].total_orders = agents[k].total_orders
             /\ agents'[k].new_order_count = agents[k].new_order_count
             /\ agents'[k].historical_orders = agents[k].historical_orders
             /\ agents'[k].historical_spending = agents[k].historical_spending
             /\ (pc = "agents" /\ idx = k =>
                    UNCHANGED <<generated_revenue, received_orders_count>>)]_vars
\* a churned agent has been stepped again
C4_Witness == LoggedToday("step", "churned") # {}

\* C5: tickets_count never decreases and grows by exactly one with every order
\* recorded for the agent, and at no other time.
C5_TicketPerRecordedOrder ==
    [][\A k \in AgentIds :
          /\ agents'[k].tickets_count >= agents[k].tickets_count
          /\ agents'[k].tickets_count - agents[k].tickets_count =
                Len(agents'[k].historical_orders) - Len(agents[k].historical_orders)]_vars

\* C6: every agent with total_orders > 0 has
\* avg_order_value = historical_spending / total_orders.
C6_AverageOrderValue ==
    \A k \in AgentIds :
        agents[k].total_orders > 0 =>
            agents[k].avg_order_value =
                Div(agents[k].historical_spending, agents[k].total_orders)
\* an order has just been recorded for an agent that already had orders
C6_Witness ==
    \E k \in AgentIds :
        /\ agents[k].new_order_count > 0
        /\ agents[k].total_orders > agents[k].new_order_count
        /\ LoggedToday("step", "order") # {}


PrizeFields(a) == <<a.hasWonImpactFactor, a.prize_wins>>
AwardFields(a) == <<a.campaign_impact_factor, a.hasWonImpactFactor, a.prize_wins>>
AwardStep == pc = "idle" /\ pc' = "agents"

\* C13: the award of a prize day adds the prize's increase to the campaign
\* impact factor and to hasWonImpactFactor of exactly one agent, the drawn
\* winner, and appends the prize label to its prize_wins; it changes these
\* three fields of no other agent; on a day without a prize no step changes
\* any agent's hasWonImpactFactor or prize_wins.
C13_AwardChangesTheWinnerOnly ==
    [][LET prize == get_daily_prize(current_date)
       IN  /\ (AwardStep /\ prize # NoPrize) =>
                 \E w \in DOMAIN agents :
                   /\ agents[w].customer_id = day_log'[1].id
                   /\ agents'[w].campaign_impact_factor =
                        agents[w].campaign_impact_factor + prize.campaign_impact_increase
                   /\ agents'[w].hasWonImpactFactor =
                        agents[w].hasWonImpactFactor + prize.campaign_impact_increase
                   /\ agents'[w].prize_wins = agents[w].prize_wins \o <<prize.prize>>
                   /\ \A k \in DOMAIN agents \ {w} : AwardFields(agents'[k]) = AwardFields(agents[k])
           /\ (status = "running" /\ prize = NoPrize) =>
                 \A k \in DOMAIN agents : PrizeFields(agents'[k]) = PrizeFields(agents[k])
      ]_vars

\* Right after the award of a roster of two: the second agent has won, the
\* first has not.
C13_Witness ==
    /\ pc = "agents" /\ idx = 1 /\ Len(day_log) = 1
    /\ Len(agents) = 2
    /\ day_log[1].id = agents[2].customer_id
    /\ agents[2].prize_wins # <<>>
    /\ agents[2].hasWonImpactFactor > 1000
    /\ agents[1].prize_wins = <<>>

\* A day without a prize has gone through its agent steps.
C13_WitnessNoPrizeDay ==
    /\ pc = "agents" /\ idx > 1
    /\ get_daily_prize(current_date) = NoPrize

\* The agent at idx has just been stepped and its order generation failed.
OrderFailedStep ==
    /\ pc = "agents" /\ status = "running"
    /\ Len(day_log') = Len(day_log) + 1
    /\ day_log'[Len(day_log')].outcome = "order_failed"

\* C16: when generate_customer_order fails in an agent's step, only that
\* customer's order is lost: nothing is recorded for the customer, the run
\* goes on with the next agent of the day, and the day can still end with the
\* date advanced.
C16_FailedOrderAbortsOnlyThatOrder ==
    [][OrderFailedStep =>
         /\ agents'[idx].historical_orders = agents[idx].historical_orders
         /\ generated_revenue' = generated_revenue
         /\ received_orders_count' = received_orders_count
         /\ status' = "running"
         /\ idx' = idx + 1
      ]_vars

\* The part of C16 that holds: a failed order generation records no order,
\* no revenue and no order count.
C16_FailedOrderRecordsNothing ==
    [][OrderFailedStep =>
         /\ agents'[idx].historical_orders = agents[idx].historical_orders
         /\ agents'[idx].total_orders = agents[idx].total_orders
         /\ generated_revenue' = generated_revenue
         /\ received_orders_count' = received_orders_count
      ]_vars

NobodyInRosterHoldsTicket == \A j \in DOMAIN customers : customers[j].tickets_count <= 0

\* step() starts a prize day of the campaign on which no customer of the
\* roster holds a ticket.
PrizeDayWithoutTickets ==
    /\ pc = "idle" /\ status = "running"
    /\ current_date <= CAMPAIGN_END
    /\ get_daily_prize(current_date) # NoPrize
    /\ NobodyInRosterHoldsTicket
    /\ day_log' # day_log

\* C19: on a prize day on which no customer holds a ticket the driver skips
\* the award, changing no agent, and goes on to step the agents of the day
\* instead of ending the run.
C19_AwardSkippedWithoutTickets ==
    [][PrizeDayWithoutTickets =>
         /\ agents' = agents
         /\ status' = "running"
         /\ pc' = "agents" /\ idx' = 1
      ]_vars

\* C18: at the end of every day of the campaign window every agent's
\* campaign_impact_factor, churned or not, prize winner or not, lies within
\* [1.0, MAX_CAMPAIGN_IMPACT_FACTOR].
C18_ImpactFactorBoundedAtDayEnd ==
    (DayFinished /\ current_date - 1 >= CAMPAIGN_START /\ current_date - 1 <= CAMPAIGN_END) =>
        \A k \in DOMAIN agents :
            /\ agents[k].campaign_impact_factor >= 1000
            /\ agents[k].campaign_impact_factor <= MAX_CAMPAIGN_IMPACT_FACTOR

\* The part of C18 that holds: an agent that went through the daily refresh
\* of its step (it neither churned that day nor earlier) ends the day within
\* the limits.
C18_RefreshedFactorBounded ==
    [][(pc = "agents" /\ status = "running" /\ Len(day_log') = Len(day_log) + 1
          /\ day_log'[Len(day_log')].outcome \in {"no_order", "order", "order_failed"}) =>
         /\ agents'[idx].campaign_impact_factor >= 1000
         /\ agents'[idx].campaign_impact_factor <= MAX_CAMPAIGN_IMPACT_FACTOR
      ]_vars

\* The agent at idx goes through a whole step: it is not churned and does
\* not churn, so its state is refreshed and decide_order_placement is called.
FullAgentStep ==
    /\ pc = "agents" /\ status = "running"
    /\ Len(day_log') = Len(day_log) + 1
    /\ day_log'[Len(day_log')].outcome \in {"no_order", "order", "order_failed"}

\* C20: in one agent step the lifecycle state of the agent-level classifier,
\* used for the churn probability and the lifecycle purchase multiplier, is
\* the state of the attribute updater that is passed to
\* decide_order_placement and stored on the agent at the end of the step.
C20_OneLifecycleStatePerStep ==
    [][FullAgentStep =>
         update_lifecycle_state(agents[idx], current_date).lifecycle_state
             = agents'[idx].lifecycle_state
      ]_vars

\* The operations of a day in the order of the specification, up to the
\* point the log has reached: the prize, one step per agent in roster order,
\* the collection of the aggregates, the advance of the date.
InDayOrder(log) ==
    /\ Len(log) <= Len(agents) + 3
    /\ \A k \in DOMAIN log :
          IF k = 1 THEN log[k].op = "prize"
          ELSE IF k <= Len(agents) + 1
            THEN log[k].op = "step" /\ log[k].id = agents[k - 1].customer_id
          ELSE IF k = Len(agents) + 2 THEN log[k].op = "collect"
          ELSE log[k].op = "advance"
CompleteDay(log) == InDayOrder(log) /\ Len(log) = Len(agents) + 3

\* C21: the operations of a day happen in this order: the prize is drawn and
\* awarded before any agent steps, every agent steps exactly once in roster
\* order, the aggregates are collected after the last agent step, and only
\* then the date advances; the first operation of the next day comes after
\* the day before is complete.
C21_OperationsOfADayInOrder ==
    [][/\ InDayOrder(day_log')
       /\ (AwardStep /\ get_daily_prize(current_date) # NoPrize) =>
              (day_log' = <<LogEntry("prize", day_log'[1].id, day_log'[1].outcome)>>
               /\ agents'[FirstOf(SelectAgents(day_log'[1].id))].prize_wins # agents[FirstOf(SelectAgents(day_log'[1].id))].prize_wins)
       /\ (current_date' # current_date) =>
              (CompleteDay(day_log') /\ current_date' = current_date + 1
               /\ Len(datacollected') = Len(datacollected) + 1)
       /\ (day_log' # day_log /\ Len(day_log') = 1) =>
              (day_log = <<>> \/ CompleteDay(day_log))
      ]_vars

\* The second day of a roster of two is complete.
C21_Witness ==
    /\ DayFinished /\ steps = 2
    /\ Len(agents) = 2
    /\ CompleteDay(day_log)
    /\ day_log[2].id = agents[1].customer_id /\ day_log[3].id = agents[2].customer_id

\* C30 in a run: no step of a participating agent stores AT_RISK.
C30_NoAtRiskStoredInRun ==
    [][FullAgentStep => agents'[idx].lifecycle_state # "AT_RISK"]_vars

(***************************************************************************)
(* The behavioural scores of one customer: update_customer_satisfaction,   *)
(* update_purchase_intent, simulate_random_customer_experiences            *)
(* (tools/tools.py) and the agent's post-purchase updates.                 *)
(***************************************************************************)
\* Mutant of update_customer_satisfaction: the purchase boost is not clamped.
update_customer_satisfaction_unclamped(c, days_passed, had_purchase, had_negative_experience) ==
    LET s1 == Max(0, c.satisfaction_score - days_passed * SATISFACTION_DECAY_RATE)
        s3 == IF had_purchase THEN s1 + 10 ELSE s1
    IN  [c EXCEPT !.satisfaction_score =
                      IF had_negative_experience THEN Max(0, s3 - 30) ELSE s3,
                  !.last_negative_experience_days =
                      IF had_negative_experience THEN 0 ELSE @]

update_customer_satisfaction(c, days_passed, had_purchase, had_negative_experience) ==
    LET decay == days_passed * SATISFACTION_DECAY_RATE
        s1 == Max(0, c.satisfaction_score - decay)
        recovering == c.last_negative_experience_days < 999
        n1 == IF recovering THEN c.last_negative_experience_days + days_passed
              ELSE c.last_negative_experience_days
        s2 == IF recovering /\ n1 > 30
                THEN Min(100, s1 + (n1 - 30) * SATISFACTION_RECOVERY_RATE) ELSE s1
        s3 == IF had_purchase THEN Min(100, s2 + 10) ELSE s2
        s4 == IF had_negative_experience THEN Max(0, s3 - 30) ELSE s3
        n2 == IF had_negative_experience THEN 0 ELSE n1
    IN  [c EXCEPT !.satisfaction_score = s4, !.last_negative_experience_days = n2]

\* browse_draw is the outcome of "random.random() < 0.15".
update_purchase_intent(c, days_passed, simulated_browsing, browse_draw) ==
    LET decay == days_passed * PURCHASE_INTENT_DECAY_RATE
        p1 == Max(0, c.purchase_intent_level - decay)
    IN  [c EXCEPT !.purchase_intent_level =
                      IF simulated_browsing \/ browse_draw
                        THEN Min(100, p1 + PURCHASE_INTENT_BOOST_AFTER_BROWSE) ELSE p1]

\* r names the random outcomes: the four chance draws and the two uniform
\* changes (loyalty in [-0.1, 0.1], sensitivity in [-0.05, 0.05]).
simulate_random_customer_experiences(c, r) ==
    LET c1 == IF r.negative THEN update_customer_satisfaction(c, 0, FALSE, TRUE) ELSE c
        c2 == IF r.positive
                THEN [c1 EXCEPT !.satisfaction_score = Min(100, @ + 5)] ELSE c1
        c3 == IF r.loyalty
                THEN [c2 EXCEPT !.brand_loyalty = Max(0, Min(100, @ + r.loyalty_change))]
                ELSE c2
    IN  IF r.sensitivity
          THEN [c3 EXCEPT !.price_sensitivity = Max(0, Min(100, @ + r.sensitivity_change))]
          ELSE c3

\* CustomerAgent.step after will_order: the purchase boost of the satisfaction
\* and the reset of the purchase intent.
post_purchase(c) ==
    [update_customer_satisfaction(c, 0, TRUE, FALSE)
        EXCEPT !.purchase_intent_level = Max(10, @ - 30)]

Scores(sat, intent, sens, loyalty, neg_days) ==
    [satisfaction_score |-> sat, purchase_intent_level |-> intent,
     price_sensitivity |-> sens, brand_loyalty |-> loyalty,
     last_negative_experience_days |-> neg_days]

ScoreStarts == { Scores(70, 50, 50, 50, 999),    \* the defaults of models.Customer
                 Scores(0, 0, 0, 0, 999),
                 Scores(100, 100, 100, 100, 30),
                 Scores(96, 5, 98, 3, 0) }
DaysPassed == 0..MaxDaysPassed
LoyaltyChanges == {-10, 10}
SensitivityChanges == {-5, 5}
RandomExperiences ==
    [negative : BOOLEAN, positive : BOOLEAN, loyalty : BOOLEAN,
     loyalty_change : LoyaltyChanges, sensitivity : BOOLEAN,
     sensitivity_change : SensitivityChanges]

InitScores ==
    /\ SimIdle /\ ImpactIdle /\ DecideIdle /\ GenIdle /\ DrawIdle /\ AcqIdle /\ LifeIdle /\ RunIdsIdle
    /\ scores \in ScoreStarts
    /\ scores_op = "init"
    /\ scores_ops = 0

UpdateSatisfaction ==
    /\ scores_ops < MaxScoreOps
    /\ \E d \in DaysPassed, had_purchase \in BOOLEAN, had_negative \in BOOLEAN :
          scores' = update_customer_satisfaction(scores, d, had_purchase, had_negative)
    /\ scores_op' = "update_customer_satisfaction"
    /\ scores_ops' = scores_ops + 1
    /\ UNCHANGED notScores

UpdatePurchaseIntent ==
    /\ scores_ops < MaxScoreOps
    /\ \E d \in DaysPassed, simulated_browsing \in BOOLEAN, browse_draw \in BOOLEAN :
          scores' = update_purchase_intent(scores, d, simulated_browsing, browse_draw)
    /\ scores_op' = "update_purchase_intent"
    /\ scores_ops' = scores_ops + 1
    /\ UNCHANGED notScores

SimulateExperiences ==
    /\ scores_ops < MaxScoreOps
    /\ \E r \in RandomExperiences :
          scores' = simulate_random_customer_experiences(scores, r)
    /\ scores_op' = "simulate_random_customer_experiences"
    /\ scores_ops' = scores_ops + 1
    /\ UNCHANGED notScores

PostPurchase ==
    /\ scores_ops < MaxScoreOps
    /\ scores' = post_purchase(scores)
    /\ scores_op' = "post_purchase"
    /\ scores_ops' = scores_ops + 1
    /\ UNCHANGED notScores

NextScores == UpdateSatisfaction \/ UpdatePurchaseIntent \/ SimulateExperiences \/ PostPurchase

SpecScores == InitScores /\ [][NextScores]_vars

ImpactFactors == {390, 1000, 1300, 2500}
ImpactDates == {CAMPAIGN_START - 30, CAMPAIGN_START - 1, CAMPAIGN_START,
                CAMPAIGN_END, CAMPAIGN_END + 1, CAMPAIGN_END + 30}

InitImpact ==
    /\ SimIdle /\ ScoresIdle /\ DecideIdle /\ GenIdle /\ DrawIdle /\ AcqIdle /\ LifeIdle /\ RunIdsIdle
    /\ impact \in [enabled : BOOLEAN, factor : ImpactFactors,
                   count : 0..MaxImpactOrders, date : ImpactDates,
                   result : {0}, called : {FALSE}]

ImpactCall ==
    /\ ~impact.called
    /\ impact' = [impact EXCEPT
                    !.result = generate_campaign_impact_factor(
                                   impact.enabled, impact.factor, impact.count, impact.date),
                    !.called = TRUE]
    /\ UNCHANGED notImpact

NextImpact == ImpactCall

SpecImpact == InitImpact /\ [][NextImpact]_vars

OutsideCampaign(d) == d < CAMPAIGN_START \/ d > CAMPAIGN_END

\* C9: generate_campaign_impact_factor returns exactly 1.0 for every current
\* factor and order count when campaign effects are disabled or the date is
\* before CAMPAIGN_START or after CAMPAIGN_END.
C9_NeutralOutsideCampaign ==
    (impact.called /\ (~impact.enabled \/ OutsideCampaign(impact.date)))
        => impact.result = 1000
\* effects enabled, a date after the campaign, a factor above the cap and an
\* order count in the fatigue range
C9_Witness ==
    /\ impact.called /\ impact.enabled
    /\ impact.date > CAMPAIGN_END
    /\ impact.factor > MAX_CAMPAIGN_IMPACT_FACTOR
    /\ impact.count > 8
    /\ impact.result = 1000
C9_WitnessDisabled ==
    /\ impact.called /\ ~impact.enabled
    /\ ~OutsideCampaign(impact.date)
    /\ impact.result = 1000


(***************************************************************************)
(* tools/tools.py: decide_order_placement.  Probabilities are in           *)
(* millionths, factors in thousandths, scores in hundredths.               *)
(***************************************************************************)
NEW_CUSTOMER_BASELINE_PROBABILITY == 10000
WEEKEND_IMPULSE_BOOST == 1100
PAYDAY_BOOST_DAYS == {1, 15}
SATISFACTION_LOW_THRESHOLD == 30
SATISFACTION_HIGH_THRESHOLD == 80
IMPULSE_PURCHASE_THRESHOLD == 20
PLANNED_PURCHASE_THRESHOLD == 70
SEASONAL_BOOST_MONTHS == {11, 12, 1, 2}
SEASONAL_BOOST_FACTOR == 1150
SEASONAL_LOW_MONTHS == {6, 7, 8}
SEASONAL_LOW_FACTOR == 900
ECONOMIC_SENTIMENT_FACTOR == 1000
PRODUCT_INTEREST_DECLINE_RATE == 5
PRODUCT_DISCOVERY_BOOST == 300
HIGH_PRICE_SENSITIVITY_THRESHOLD == 70
LOW_PRICE_SENSITIVITY_THRESHOLD == 30
PRICE_SENSITIVE_REDUCTION_FACTOR == 600
HIGH_BRAND_LOYALTY_THRESHOLD == 80
LOW_BRAND_LOYALTY_THRESHOLD == 30
BRAND_LOYALTY_BOOST_FACTOR == 1200

\* p * f for a probability p and a factor f in thousandths
Mul(p, f) == (p * f) \div 1000

NoCustomerData == [present |-> FALSE]
InCampaign(current) == current >= CAMPAIGN_START /\ current <= CAMPAIGN_END

base_daily_probability(historical_orders_count, historical_days) ==
    IF historical_days <= 0 \/ historical_orders_count = 0
      THEN NEW_CUSTOMER_BASELINE_PROBABILITY \div 10
      ELSE Min((1000000 * historical_orders_count)
                  \div Max(historical_days, 7 * historical_orders_count), 20000)

days_since_last_purchase(historical_orders, current) ==
    IF Len(historical_orders) > 0
      THEN current - historical_orders[Len(historical_orders)].order_date
      ELSE 999

cooldown_factor(days) ==
    IF days < 3 THEN 50 ELSE IF days < 7 THEN 200
    ELSE IF days < 14 THEN 500 ELSE IF days < 30 THEN 800 ELSE 1000

day_factor(current) ==
    IF Weekday(current) = 4 THEN 1200
    ELSE IF Weekday(current) \in {5, 6} THEN (1100 * WEEKEND_IMPULSE_BOOST) \div 1000
    ELSE IF Weekday(current) = 0 THEN 900 ELSE 1000

budget_cycle_factor(current) ==
    LET day_of_month == DayOfMonth(current)
        payday_boost == IF day_of_month \in PAYDAY_BOOST_DAYS THEN 1200 ELSE 1000
    IN  IF day_of_month <= 5 THEN (1300 * payday_boost) \div 1000
        ELSE IF day_of_month <= 15 THEN payday_boost
        ELSE IF day_of_month <= 25 THEN 800 ELSE 700

satisfaction_factor(customer_data) ==
    IF ~customer_data.present THEN 1000
    ELSE LET satisfaction == customer_data.satisfaction_score
             f == IF satisfaction < SATISFACTION_LOW_THRESHOLD THEN 200
                  ELSE IF satisfaction > SATISFACTION_HIGH_THRESHOLD THEN 1300
                  ELSE 500 + satisfaction * 10
         IN  IF customer_data.last_negative_experience_days < 14
               THEN (f * 3) \div 10 ELSE f

purchase_intent_factor(customer_data, current) ==
    IF ~customer_data.present THEN 1000
    ELSE LET intent == customer_data.purchase_intent_level
         IN  IF intent < IMPULSE_PURCHASE_THRESHOLD
               THEN (IF Weekday(current) \in {5, 6} THEN 300 ELSE 150)
             ELSE IF intent > PLANNED_PURCHASE_THRESHOLD THEN 1500
             ELSE 700 + intent * 6

price_sensitivity_factor(customer_data) ==
    IF ~customer_data.present THEN 1000
    ELSE IF customer_data.price_sensitivity > HIGH_PRICE_SENSITIVITY_THRESHOLD
      THEN PRICE_SENSITIVE_REDUCTION_FACTOR
    ELSE IF customer_data.price_sensitivity < LOW_PRICE_SENSITIVITY_THRESHOLD
      THEN 1100 ELSE 1000

brand_loyalty_factor(customer_data) ==
    IF ~customer_data.present THEN 1000
    ELSE IF customer_data.brand_loyalty > HIGH_BRAND_LOYALTY_THRESHOLD
      THEN BRAND_LOYALTY_BOOST_FACTOR
    ELSE IF customer_data.brand_loyalty < LOW_BRAND_LOYALTY_THRESHOLD THEN 700 ELSE 1000

seasonal_factor(current) ==
    IF Month(current) \in SEASONAL_BOOST_MONTHS THEN SEASONAL_BOOST_FACTOR
    ELSE IF Month(current) \in SEASONAL_LOW_MONTHS THEN SEASONAL_LOW_FACTOR ELSE 1000

\* discovery is the outcome of "random.random() < 0.1"
product_interest_factor(days, discovery) ==
    IF discovery THEN 1000 + PRODUCT_DISCOVERY_BOOST
    ELSE 1000 - Min(days * PRODUCT_INTEREST_DECLINE_RATE, 300)

comprehensive_probability(historical_orders, historical_days, current, customer_data, discovery) ==
    LET days == days_since_last_purchase(historical_orders, current)
        p0 == base_daily_probability(Len(historical_orders), historical_days)
        p1 == Mul(p0, cooldown_factor(days))
        p2 == Mul(p1, day_factor(current))
        p3 == Mul(p2, budget_cycle_factor(current))
        p4 == Mul(p3, satisfaction_factor(customer_data))
        p5 == Mul(p4, purchase_intent_factor(customer_data, current))
        p6 == Mul(p5, seasonal_factor(current))
        p7 == Mul(p6, price_sensitivity_factor(customer_data))
        p8 == Mul(p7, brand_loyalty_factor(customer_data))
        p9 == Mul(p8, product_interest_factor(days, discovery))
    IN  Mul(p9, ECONOMIC_SENTIMENT_FACTOR)

campaign_multiplier(campaign_impact_factor) ==
    IF campaign_impact_factor > 1000
      THEN (campaign_impact_factor * 8) \div 10 ELSE campaign_impact_factor

campaign_urgency_boost(current) ==
    LET days_left == CAMPAIGN_END - current
    IN  IF days_left <= 7 THEN 1400 ELSE IF days_left <= 30 THEN 1200 ELSE 1000

reactivation_boost(customer_data) ==
    IF customer_data.present /\ customer_data.lifecycle_state = "DORMANT" THEN 1800
    ELSE IF customer_data.present /\ customer_data.lifecycle_state = "AT_RISK" THEN 1400
    ELSE 1000

promotional_boost(current) == IF DayOfMonth(current) \in {1, 15} THEN 1300 ELSE 1000

\* The probability of Steps 1 to 5 without its ceilings.
final_probability_uncapped(enabled, campaign_impact_factor, historical_orders, historical_days, current, customer_data, discovery) ==
    LET comprehensive == comprehensive_probability(historical_orders, historical_days,
                                                   current, customer_data, discovery)
        campaign == Mul(Mul(Mul(Mul(comprehensive,
                                    campaign_multiplier(campaign_impact_factor)),
                                campaign_urgency_boost(current)),
                            reactivation_boost(customer_data)),
                        promotional_boost(current))
    IN  IF enabled /\ InCampaign(current) THEN campaign ELSE comprehensive

\* Steps 1 to 5 of decide_order_placement: the probability the final draw is
\* compared with.
final_probability(enabled, campaign_impact_factor, historical_orders, historical_days, current, customer_data, discovery) ==
    LET comprehensive == comprehensive_probability(historical_orders, historical_days,
                                                   current, customer_data, discovery)
        campaign == Mul(Mul(Mul(Mul(comprehensive,
                                    campaign_multiplier(campaign_impact_factor)),
                                campaign_urgency_boost(current)),
                            reactivation_boost(customer_data)),
                        promotional_boost(current))
    IN  IF enabled /\ InCampaign(current)
          THEN Min(Min(campaign, 80000), 80000)
          ELSE Min(comprehensive, 20000)

\* draws holds the outcomes of the random calls: discovery, random_number (in
\* millionths), and the two rejection draws "random.random() > 0.95" and
\* "random.random() > 0.1".
decide_order_placement(enabled, campaign_impact_factor, historical_orders, historical_days, current, customer_data, draws) ==
    IF days_since_last_purchase(historical_orders, current) < 2 /\ draws.recent_reject
      THEN FALSE
    ELSE IF customer_data.present /\ customer_data.satisfaction_score < 20
            /\ draws.satisfaction_reject
      THEN FALSE
    ELSE draws.random_number <=
            final_probability(enabled, campaign_impact_factor, historical_orders,
                              historical_days, current, customer_data, draws.discovery)

CustomerData(sat, intent, sens, loyalty, neg_days, state) ==
    [present |-> TRUE, satisfaction_score |-> sat, purchase_intent_level |-> intent,
     price_sensitivity |-> sens, brand_loyalty |-> loyalty,
     last_negative_experience_days |-> neg_days, lifecycle_state |-> state]

DecideCustomers ==
    { NoCustomerData,
      CustomerData(70, 50, 50, 50, 999, "ACTIVE"),
      CustomerData(10, 10, 80, 90, 3, "DORMANT"),
      CustomerData(90, 80, 20, 20, 999, "AT_RISK") }
\* histories with the historical_days passed along with them
DecideHistories ==
    { [orders |-> <<>>, days |-> 0],
      [orders |-> <<Order(-100, 4000), Order(-40, 2500)>>, days |-> 100],
      [orders |-> <<Order(-20, 3000), Order(-9, 3000), Order(CAMPAIGN_START, 9000)>>,
       days |-> 20] }
DecideDates == {CAMPAIGN_START, CAMPAIGN_START + 1, CAMPAIGN_END, CAMPAIGN_END + 1, 61}
DecideDraws ==
    [discovery : BOOLEAN, random_number : {500, 50000},
     recent_reject : BOOLEAN, satisfaction_reject : BOOLEAN]
CampaignFactors == {300, 1000, 1100, 1300, 2000, 3000}

InitDecide ==
    /\ SimIdle /\ ScoresIdle /\ ImpactIdle /\ GenIdle /\ DrawIdle /\ AcqIdle /\ LifeIdle /\ RunIdsIdle
    /\ \E h \in DecideHistories, c \in DecideCustomers, d \in DecideDates,
          r \in DecideDraws, f1 \in CampaignFactors, f2 \in CampaignFactors,
          enabled \in BOOLEAN :
          /\ f1 <= f2
          /\ decide = [history |-> h, customer_data |-> c, current_date |-> d,
                       draws |-> r, f1 |-> f1, f2 |-> f2, enabled |-> enabled,
                       p1 |-> 0, p2 |-> 0, d1 |-> FALSE, d2 |-> FALSE,
                       called |-> FALSE]

DecideCall ==
    /\ ~decide.called
    /\ LET P(f) == final_probability(decide.enabled, f, decide.history.orders,
                                     decide.history.days, decide.current_date,
                                     decide.customer_data, decide.draws.discovery)
           D(f) == decide_order_placement(decide.enabled, f,
                                          decide.history.orders, decide.history.days,
                                          decide.current_date, decide.customer_data,
                                          decide.draws)
       IN  decide' = [decide EXCEPT !.p1 = P(decide.f1), !.p2 = P(decide.f2),
                                    !.d1 = D(decide.f1), !.d2 = D(decide.f2),
                                    !.called = TRUE]
    /\ UNCHANGED notDecide

NextDecide == DecideCall

SpecDecide == InitDecide /\ [][NextDecide]_vars

\* C10: with history, date, customer state and random draws fixed, the final
\* purchase probability of decide_order_placement, and hence its decision, is
\* non-decreasing in campaign_impact_factor: f1 <= f2 gives p(f1) <= p(f2).
C10_MonotoneInImpactFactor ==
    (decide.called /\ decide.f1 <= decide.f2) =>
        /\ decide.p1 <= decide.p2
        /\ (decide.d1 => decide.d2)

CampaignCeiling == 80000
BaselineCeiling == 20000
CeilingOf(enabled, current) ==
    IF enabled /\ current >= CAMPAIGN_START /\ current <= CAMPAIGN_END
      THEN CampaignCeiling ELSE BaselineCeiling

\* C22: the probability decide_order_placement compares its uniform draw
\* with is at most 0.08 when campaign effects are enabled and the date is in
\* the campaign window, and at most 0.02 otherwise; an order is placed only
\* on a draw within that ceiling.
C22_ProbabilityUnderCeiling ==
    (decide # <<>> /\ decide.called) =>
        LET ceiling == CeilingOf(decide.enabled, decide.current_date)
        IN  /\ decide.p1 <= ceiling
            /\ decide.p2 <= ceiling
            /\ (decide.d1 \/ decide.d2) => decide.draws.random_number <= ceiling

\* The campaign ceiling is reached in the window with effects enabled.
C22_Witness ==
    /\ decide # <<>> /\ decide.called
    /\ decide.enabled /\ decide.current_date = CAMPAIGN_START
    /\ decide.p2 = CampaignCeiling
    /\ decide.p1 < decide.p2

\* The baseline ceiling is reached with effects disabled.
C22_WitnessBaseline ==
    /\ decide # <<>> /\ decide.called
    /\ ~decide.enabled /\ decide.current_date = CAMPAIGN_START
    /\ decide.p2 = BaselineCeiling

(***************************************************************************)
(* tools/generate_custom_order.py: generate_customer_order and its         *)
(* helpers.  Money is in thousandths of a unit, so that a catalog price    *)
(* can carry a third decimal, which _get_product_price rounds away.        *)
(***************************************************************************)
MINIMUM_ORDER_VALUE == 5000
MAXIMUM_ITEMS_PER_ORDER == 7
DEFAULT_ITEMS_PER_ORDER == 2
DEFAULT_NEW_CUSTOMER_ORDER_VALUE == 35000

\* round(x, 2) of a non-negative amount; no amount of the model lies exactly
\* halfway between two hundredths
Round2(x) == ((x + 5) \div 10) * 10

OrderLine(name, price, qty) ==
    [product_name |-> name, product_price |-> price, quantity |-> qty]
Product(name, frequency, score, quantity, price) ==
    [name |-> name, frequency |-> frequency, preference_score |-> score,
     avg_quantity |-> quantity, avg_price |-> price]

\* data/analysis/product_catalog.json; <<>> stands for a missing or empty file
ProductCatalog ==
    << Product("capsules", 5, 600, 250, 12346),
       Product("espresso", 3, 400, 100, 31500),
       Product("sample", 0, 0, 100, 2004) >>
Catalogs == {ProductCatalog, <<>>}

RECURSIVE FlattenLines(_)
FlattenLines(orders) ==
    IF orders = <<>> THEN <<>>
    ELSE Head(orders).order_lines \o FlattenLines(Tail(orders))

\* sum(s) of a sequence of numbers
SumSeq(s) ==
    LET partial[k \in 0..Len(s)] == IF k = 0 THEN 0 ELSE partial[k - 1] + s[k]
    IN  partial[Len(s)]

NamedLine(line) == line.product_name # "" /\ line.product_name # "Unknown Product"

get_default_product_preferences(catalog) ==
    IF catalog = <<>>
      THEN [preferred_products |-> {}, typical_items_per_order |-> DEFAULT_ITEMS_PER_ORDER * 100]
      ELSE LET frequencies == [k \in DOMAIN catalog |-> catalog[k].frequency]
           IN  [preferred_products |->
                    {[name |-> catalog[k].name,
                      preference_score |-> catalog[k].preference_score,
                      avg_quantity |-> catalog[k].avg_quantity] : k \in DOMAIN catalog},
                typical_items_per_order |->
                    (100 * SumSeq(frequencies)) \div Len(catalog)]

\* preferred_products are the first max(3, int(0.7 n)) products in
\* Counter.most_common order: by frequency, ties in order of first appearance
analyze_product_preferences(historical_orders, catalog) ==
    IF historical_orders = <<>> THEN get_default_product_preferences(catalog)
    ELSE LET all_products == SelectSeq(FlattenLines(historical_orders), NamedLine)
             names == {all_products[k].product_name : k \in DOMAIN all_products}
             Lines(n) == {k \in DOMAIN all_products : all_products[k].product_name = n}
             product_frequency(n) == Cardinality(Lines(n))
             First(n) == CHOOSE k \in Lines(n) : \A j \in Lines(n) : k <= j
             Rank(n) == Cardinality({m \in names :
                            \/ product_frequency(m) > product_frequency(n)
                            \/ /\ product_frequency(m) = product_frequency(n)
                               /\ First(m) < First(n)})
             QuantityOf(n) ==
                 SumSeq([k \in DOMAIN all_products |->
                            IF all_products[k].product_name = n
                              THEN all_products[k].quantity ELSE 0])
             limit == Max(3, (Cardinality(names) * 7) \div 10)
         IN  [preferred_products |->
                  {[name |-> n,
                    preference_score |-> (1000 * product_frequency(n)) \div Len(all_products),
                    avg_quantity |-> (100 * QuantityOf(n)) \div product_frequency(n)]
                   : n \in {m \in names : Rank(m) < limit}},
              typical_items_per_order |-> (100 * Len(all_products)) \div Len(historical_orders)]

\* randomness is random.uniform(0.8, 1.2) in hundredths
calculate_target_order_value(customer, randomness) ==
    LET base_value ==
            IF customer.average_order_value <= 0 \/ customer.historical_purchase_frequency = <<>>
              THEN DEFAULT_NEW_CUSTOMER_ORDER_VALUE ELSE customer.average_order_value
    IN  Max((base_value * randomness) \div 100, MINIMUM_ORDER_VALUE)

\* the catalog entries called name; _get_product_price raises ValueError when
\* there is none
CatalogEntries(catalog, name) == {k \in DOMAIN catalog : catalog[k].name = name}
get_product_price(catalog, name) ==
    LET k == CHOOSE j \in CatalogEntries(catalog, name) :
                 \A i \in CatalogEntries(catalog, name) : j <= i
    IN  Round2(catalog[k].avg_price)

\* the products _get_random_product can return
valid_products(catalog) ==
    {catalog[k].name : k \in {j \in DOMAIN catalog :
                                 catalog[j].frequency > 0 /\ catalog[j].avg_price > 0}}

\* Mutant of actual_total: the quantities are left out of the sum.
actual_total_of_prices(order_lines) ==
    SumSeq([k \in DOMAIN order_lines |-> order_lines[k].product_price])

\* "Step 5: Calculate actual total spent"
actual_total(order_lines) ==
    SumSeq([k \in DOMAIN order_lines |->
               order_lines[k].product_price * order_lines[k].quantity])

\* _generate_order_lines: target_items and num_items; noise is the whole-number
\* effect of random.normalvariate(0, 0.5) under int()
\* The number of lines without the floor of 1 and the cap.
num_items_of_uncapped(product_preferences, noise) ==
    product_preferences.typical_items_per_order \div 100 + noise

num_items_of(product_preferences, noise) ==
    LET target_items == Max(1, product_preferences.typical_items_per_order \div 100)
    IN  Min(Max(1, target_items + noise), MAXIMUM_ITEMS_PER_ORDER)

\* The outcomes of choosing a product in one pass of the loop: a preferred
\* product (random.choices by preference_score) priced by _get_product_price,
\* or _get_random_product.  ok = FALSE stands for the ValueError.
LineChoices(product_preferences, catalog, pick_preferred) ==
    LET preferred == product_preferences.preferred_products
    IN  IF preferred # {} /\ pick_preferred
          THEN {[ok |-> CatalogEntries(catalog, sp.name) # {},
                 product_name |-> sp.name,
                 price |-> IF CatalogEntries(catalog, sp.name) # {}
                             THEN get_product_price(catalog, sp.name) ELSE 0,
                 base_quantity |-> Max(1, sp.avg_quantity \div 100)]
                : sp \in {q \in preferred : q.preference_score > 0}}
        ELSE IF valid_products(catalog) = {}
          THEN {[ok |-> FALSE, product_name |-> "", price |-> 0, base_quantity |-> 1]}
        ELSE {[ok |-> TRUE, product_name |-> n,
               price |-> get_product_price(catalog, n), base_quantity |-> 1]
              : n \in valid_products(catalog)}

\* the quantity of the line added in pass i (counted from 0); extra is
\* random.randint(0, 1)
line_quantity(price, base_quantity, extra, remaining_value, i, num_items) ==
    LET max_affordable_qty == IF price > 0 THEN Max(1, remaining_value \div price) ELSE 1
        quantity == Min(base_quantity + extra, max_affordable_qty)
        max_qty_by_budget == IF price > 0 THEN (remaining_value * 6) \div (price * 10) ELSE 1
    IN  IF i < num_items - 1 THEN Min(quantity, Max(1, max_qty_by_budget)) ELSE quantity

HistoryOrder(lines) == [order_lines |-> lines]
GenCustomer(orders, average) ==
    [historical_purchase_frequency |-> orders, average_order_value |-> average]
GenCustomers ==
    { GenCustomer(<<>>, 0),
      GenCustomer(<<HistoryOrder(<<OrderLine("capsules", 12350, 2),
                                   OrderLine("espresso", 31500, 1)>>),
                    HistoryOrder(<<OrderLine("capsules", 12350, 3)>>)>>, 60000),
      GenCustomer(<<HistoryOrder(<<OrderLine("discontinued", 9000, 1),
                                   OrderLine("capsules", 12350, 1)>>)>>, 21350),
      \* one order of nine lines, more than MAXIMUM_ITEMS_PER_ORDER
      GenCustomer(<<HistoryOrder(<<OrderLine("sample", 2000, 1), OrderLine("sample", 2000, 1),
                                   OrderLine("sample", 2000, 1), OrderLine("sample", 2000, 1),
                                   OrderLine("sample", 2000, 1), OrderLine("sample", 2000, 1),
                                   OrderLine("sample", 2000, 1), OrderLine("sample", 2000, 1),
                                   OrderLine("sample", 2000, 1)>>)>>, 60000) }
Randomness == {80, 100, 120}
ItemNoise == (0 - MaxItemNoise)..MaxItemNoise
OrderIdDraws == {1000, 9999}
GenDates == {CAMPAIGN_START, CAMPAIGN_START + 1}
MillisPerDay == 86400000
\* Step 6: int(current_date.timestamp() * 1000) + random.randint(1000, 9999)
order_id_of(current, suffix) == current * MillisPerDay + suffix

InitOrder ==
    /\ SimIdle /\ ScoresIdle /\ ImpactIdle /\ DecideIdle /\ DrawIdle /\ AcqIdle /\ LifeIdle /\ RunIdsIdle
    /\ \E c \in GenCustomers, catalog \in Catalogs, d \in GenDates :
          gen = [customer |-> c, catalog |-> catalog, current_date |-> d,
                 phase |-> "start", product_preferences |-> <<>>,
                 target_value |-> 0, num_items |-> 0, i |-> 0,
                 remaining_value |-> 0, order_lines |-> <<>>, order |-> <<>>]

\* Steps 1 and 2 of generate_customer_order and the head of _generate_order_lines
GenStart ==
    /\ gen.phase = "start"
    /\ \E randomness \in Randomness, noise \in ItemNoise :
          LET prefs == analyze_product_preferences(
                           gen.customer.historical_purchase_frequency, gen.catalog)
              target == calculate_target_order_value(gen.customer, randomness)
          IN  gen' = [gen EXCEPT !.phase = "lines",
                                 !.product_preferences = prefs,
                                 !.target_value = target,
                                 !.num_items = num_items_of(prefs, noise),
                                 !.remaining_value = target]
    /\ UNCHANGED notGen

\* one pass of the loop of _generate_order_lines
GenLine ==
    /\ gen.phase = "lines"
    /\ \E pick_preferred \in BOOLEAN, extra \in 0..1 :
          \E c \in LineChoices(gen.product_preferences, gen.catalog, pick_preferred) :
             IF ~c.ok
               THEN gen' = [gen EXCEPT !.phase = "error"]
               ELSE LET quantity == line_quantity(c.price, c.base_quantity, extra,
                                                  gen.remaining_value, gen.i, gen.num_items)
                        remaining == gen.remaining_value - c.price * quantity
                    IN  gen' = [gen EXCEPT
                           !.order_lines = Append(@, OrderLine(c.product_name, c.price, quantity)),
                           !.remaining_value = remaining,
                           !.i = @ + 1,
                           !.phase = IF remaining <= MINIMUM_ORDER_VALUE
                                        \/ gen.i + 1 = gen.num_items
                                       THEN "build" ELSE "lines"]
    /\ UNCHANGED notGen

\* Steps 4 to 7 of generate_customer_order
GenFinish ==
    /\ gen.phase = "build"
    /\ \E r \in OrderIdDraws :
          gen' = [gen EXCEPT
                    !.phase = "done",
                    !.order = [order_id |-> order_id_of(gen.current_date, r),
                               total_spent |-> Round2(actual_total(gen.order_lines)),
                               order_date |-> gen.current_date,
                               order_lines |-> gen.order_lines]]
    /\ UNCHANGED notGen

NextOrder == GenStart \/ GenLine \/ GenFinish

SpecOrder == InitOrder /\ [][NextOrder]_vars

RECURSIVE LinesTotal(_)
LinesTotal(lines) ==
    IF lines = <<>> THEN 0
    ELSE Head(lines).product_price * Head(lines).quantity + LinesTotal(Tail(lines))

\* C8: for every order returned by generate_customer_order, total_spent is
\* the sum over its lines of product_price * quantity, rounded to 2 decimals.
C8_TotalIsRoundedLineSum ==
    gen.phase = "done" =>
        gen.order.total_spent = Round2(LinesTotal(gen.order.order_lines))
\* a returned order of several lines, one of them with a quantity above one
C8_Witness ==
    /\ gen.phase = "done"
    /\ Len(gen.order.order_lines) >= 2
    /\ \E k \in DOMAIN gen.order.order_lines : gen.order.order_lines[k].quantity >= 2
    /\ gen.order.total_spent > 0
(***************************************************************************)
(* SpecPrize: one call of get_daily_prize and one of get_prize_winner on   *)
(* a drawn date and a drawn customer list.                                 *)
(***************************************************************************)
\* get_prize_winner that hands back the first customer when nobody holds a
\* ticket.
get_prize_winner_never_fails(cs, k) ==
    LET pool == weighted_customers(cs)
    IN  IF pool = <<>>
          THEN [error |-> "none", winner |-> IF cs = <<>> THEN 0 ELSE cs[1].id, pool |-> pool]
          ELSE [error |-> "none", winner |-> pool[k], pool |-> pool]

\* get_prize_winner: k is the position random.choice picks in the weighted
\* list; customer id 0 stands for "no customer returned".
get_prize_winner(cs, k) ==
    LET pool == weighted_customers(cs)
    IN  IF pool = <<>>
          THEN [error |-> "ValueError", winner |-> 0, pool |-> pool]
          ELSE [error |-> "none", winner |-> pool[k], pool |-> pool]

TicketHolder(id, tickets) == [id |-> id, tickets_count |-> tickets]

PrizeIds == {1, 2, 3}
TicketCounts == 0..MaxTickets

\* Every list of at most three customers with distinct ids.
PrizeLists ==
    {<<>>}
    \cup {<<TicketHolder(i, t)>> : i \in PrizeIds, t \in TicketCounts}
    \cup {<<TicketHolder(i[1], t[1]), TicketHolder(i[2], t[2])>> :
             i \in {x \in PrizeIds \X PrizeIds : x[1] # x[2]},
             t \in TicketCounts \X TicketCounts}
    \cup {<<TicketHolder(i[1], t[1]), TicketHolder(i[2], t[2]), TicketHolder(i[3], t[3])>> :
             i \in {x \in PrizeIds \X PrizeIds \X PrizeIds :
                       x[1] # x[2] /\ x[1] # x[3] /\ x[2] # x[3]},
             t \in TicketCounts \X TicketCounts \X TicketCounts}

\* Two weeks of September 2025, the days around the fixed dates, and both
\* fixed dates in 2025, 2026 and 2027.
October15 == {44, 409, 774}
November30 == {90, 455, 820}
PrizeDates == (0..13) \cup {43, 45, 89, 91} \cup October15 \cup November30

InitPrize ==
    /\ \E d \in PrizeDates, cs \in PrizeLists :
          draw = [date |-> d, given |-> cs, customers |-> cs,
                  prize_set |-> FALSE, prize |-> NoPrize,
                  drawn |-> FALSE, winner |-> get_prize_winner(<<>>, 1) @@ [choice |-> 0]]
    /\ SimIdle /\ ScoresIdle /\ ImpactIdle /\ DecideIdle /\ GenIdle /\ AcqIdle /\ LifeIdle /\ RunIdsIdle

DailyPrize ==
    /\ draw # <<>>
    /\ ~draw.prize_set
    /\ draw' = [draw EXCEPT !.prize_set = TRUE, !.prize = get_daily_prize(draw.date)]
    /\ UNCHANGED notDraw

PrizeWinner ==
    /\ draw # <<>>
    /\ ~draw.drawn
    /\ \E k \in 1..Max(1, Len(weighted_customers(draw.customers))) :
          draw' = [draw EXCEPT !.drawn = TRUE,
                               !.winner = get_prize_winner(draw.customers, k) @@ [choice |-> k]]
    /\ UNCHANGED notDraw

NextPrize == DailyPrize \/ PrizeWinner

SpecPrize == InitPrize /\ [][NextPrize]_vars

Drawn == draw # <<>> /\ draw.drawn
PrizeSet == draw # <<>> /\ draw.prize_set
TicketsOf(cs, id) == LET held == {cs[j].tickets_count : j \in {j \in DOMAIN cs : cs[j].id = id}}
                     IN  IF held = {} THEN 0 ELSE CHOOSE t \in held : TRUE
Occurrences(pool, id) == Cardinality({j \in DOMAIN pool : pool[j] = id})

\* C11: when somebody holds a ticket, get_prize_winner draws one position of
\* a pool in which every customer of the list stands exactly tickets_count
\* times; the customer returned is the one at the drawn position, so a
\* customer without tickets is never returned.
C11_PoolHoldsOneEntryPerTicket ==
    (Drawn /\ \E j \in DOMAIN draw.given : draw.given[j].tickets_count > 0) =>
        /\ draw.winner.error = "none"
        /\ \A id \in PrizeIds :
             Occurrences(draw.winner.pool, id) = TicketsOf(draw.given, id)
        /\ draw.winner.choice \in DOMAIN draw.winner.pool
        /\ draw.winner.winner = draw.winner.pool[draw.winner.choice]
        /\ TicketsOf(draw.given, draw.winner.winner) > 0

\* The second ticket of a two-ticket holder is drawn from a list that also
\* holds a customer without tickets and one with a single ticket.
C11_Witness ==
    /\ Drawn
    /\ Len(draw.given) = 3
    /\ {draw.given[j].tickets_count : j \in DOMAIN draw.given} = {0, 1, 2}
    /\ draw.winner.error = "none"
    /\ TicketsOf(draw.given, draw.winner.winner) = 2
    /\ draw.winner.choice > 1
    /\ draw.winner.pool[draw.winner.choice - 1] = draw.winner.winner

NobodyHoldsTicket(cs) == \A j \in DOMAIN cs : cs[j].tickets_count <= 0

\* C12: when no customer of the list holds a ticket (the empty list
\* included), get_prize_winner ends with an error, returns no customer and
\* leaves the list as it was given.
C12_NoTicketsIsAnError ==
    (Drawn /\ NobodyHoldsTicket(draw.given)) =>
        /\ draw.winner.error = "ValueError"
        /\ draw.winner.winner = 0
        /\ draw.customers = draw.given

\* The call failed on a list of three customers without tickets.
C12_Witness ==
    /\ Drawn
    /\ Len(draw.given) = 3
    /\ NobodyHoldsTicket(draw.given)
    /\ draw.winner.error = "ValueError"

\* The call failed on the empty list.
C12_WitnessEmptyList ==
    Drawn /\ draw.given = <<>> /\ draw.winner.error = "ValueError"

LadderPrize(weekday) ==
    CASE weekday = 0 -> [prize |-> "1000 GEL", campaign_impact_increase |-> 500]
      [] weekday = 1 -> [prize |-> "1500 GEL", campaign_impact_increase |-> 500]
      [] weekday = 2 -> [prize |-> "2000 GEL", campaign_impact_increase |-> 600]
      [] weekday = 3 -> [prize |-> "3000 GEL", campaign_impact_increase |-> 700]
      [] weekday = 4 -> [prize |-> "3500 GEL", campaign_impact_increase |-> 700]
      [] OTHER -> [prize |-> "None", campaign_impact_increase |-> 0]

\* C14: the prize of a date is a function of the date alone: "BMW M4"
\* (+0.2) on every October 15, "CyberTruck" (+0.0) on every November 30
\* whatever the weekday, and on every other date the Monday..Friday ladder
\* 1000/1500/2000/3000/3500 GEL (+0.5/0.5/0.6/0.7/0.7), no prize at weekends.
C14_FixedDatesBeforeWeekdayLadder ==
    PrizeSet =>
        draw.prize =
            IF draw.date \in October15
              THEN [prize |-> "BMW M4", campaign_impact_increase |-> 200]
            ELSE IF draw.date \in November30
              THEN [prize |-> "CyberTruck", campaign_impact_increase |-> 0]
            ELSE LadderPrize(draw.date % 7)

\* November 30 of 2026 is a Monday and its prize is the CyberTruck.
C14_Witness ==
    /\ PrizeSet
    /\ draw.date = 455
    /\ draw.date % 7 = 0
    /\ draw.prize.prize = "CyberTruck"

(***************************************************************************)
(* SpecAcquire: one call of decide_new_customer_acquisition                *)
(* (tools/tools.py).  Probabilities and random draws are in millionths,    *)
(* factors and the campaign progress in thousandths.                       *)
(***************************************************************************)
CUSTOMER_ACQUISITION_AFTER_CAMPAIGN_END == 1000
CUSTOMER_ACQUISITION_CAMPAIGN_BIAS == 10000
PROPORTION_OF_NEW_CUSTOMERS == 50000
MAX_CUSTOMERS_PER_DAY == 5
CUSTOMER_ACQUISITION_EARLY_CAMPAIGN_THRESHOLD == 200
CUSTOMER_ACQUISITION_EARLY_CAMPAIGN_BOOST == 2500
CUSTOMER_ACQUISITION_LATE_CAMPAIGN_THRESHOLD == 800
CUSTOMER_ACQUISITION_LATE_CAMPAIGN_BOOST == 2000
CUSTOMER_ACQUISITION_WORD_OF_MOUTH_MAX_ENGAGEMENT == 5000
CUSTOMER_ACQUISITION_WORD_OF_MOUTH_MULTIPLIER == 50
CUSTOMER_ACQUISITION_SATURATION_MIN_FACTOR == 500
CUSTOMER_ACQUISITION_WEEKEND_BOOST == 1200
vanilla_acquisition_rate == 1000
bonus_customers_chance == 300000

NoMetrics == [present |-> FALSE]
CampaignEngagementMetrics(total_orders, active_customers) ==
    [present |-> TRUE, total_orders |-> total_orders, active_customers |-> active_customers]

\* min(days_into_campaign / campaign_duration, 1.0), for a date in the campaign
campaign_progress(current) ==
    Min(((current - CAMPAIGN_START) * 1000) \div (CAMPAIGN_END - CAMPAIGN_START), 1000)

timing_factor(current) ==
    IF campaign_progress(current) < CUSTOMER_ACQUISITION_EARLY_CAMPAIGN_THRESHOLD
      THEN CUSTOMER_ACQUISITION_EARLY_CAMPAIGN_BOOST
    ELSE IF campaign_progress(current) > CUSTOMER_ACQUISITION_LATE_CAMPAIGN_THRESHOLD
      THEN CUSTOMER_ACQUISITION_LATE_CAMPAIGN_BOOST
    ELSE 1000

word_of_mouth_factor(metrics) ==
    IF metrics.present /\ metrics.total_orders > 0 /\ metrics.active_customers > 0
      THEN 1000 + Mul(Min((metrics.total_orders * 1000) \div metrics.active_customers,
                          CUSTOMER_ACQUISITION_WORD_OF_MOUTH_MAX_ENGAGEMENT),
                      CUSTOMER_ACQUISITION_WORD_OF_MOUTH_MULTIPLIER)
      ELSE 1000

\* max(MIN_FACTOR, 1.0 - existing / (existing / 2)); the caller tests the
\* divisor, which is 0.0 for an empty customer base.
saturation_factor(existing_customers_count) ==
    Max(CUSTOMER_ACQUISITION_SATURATION_MIN_FACTOR,
        1000 - (existing_customers_count * 2000) \div existing_customers_count)

acquisition_day_factor(current) ==
    IF Weekday(current) >= 5 THEN CUSTOMER_ACQUISITION_WEEKEND_BOOST ELSE 1000

acquisition_probability(current, existing_customers_count, metrics) ==
    Min(Mul(Mul(Mul(Mul(CUSTOMER_ACQUISITION_CAMPAIGN_BIAS, timing_factor(current)),
                    word_of_mouth_factor(metrics)),
                saturation_factor(existing_customers_count)),
            acquisition_day_factor(current)),
        PROPORTION_OF_NEW_CUSTOMERS)

\* The number of customers without the cap of line 444.
customers_to_acquire_uncapped(won, extra) == won + extra

\* customers_to_acquire after the bonus and the cap
customers_to_acquire(won, extra) == Min(won + extra, MAX_CUSTOMERS_PER_DAY)

\* The Customer built for an acquired customer.
NewCustomer(id, current, tickets) ==
    [id |-> id, created_at |-> current, historical_purchase_frequency |-> <<>>,
     historical_spending |-> 0, average_order_value |-> 0, total_orders |-> 0,
     is_new_customer |-> TRUE, tickets_count |-> tickets, lifecycle_state |-> "ACTIVE"]

\* Rosters by the ids of their customers: the empty base, ids 1..n, and ids
\* as a customers file may hold them.
AcqRosters == {<<>>, <<1>>, <<1, 2>>, <<2, 3>>, <<5, 9, 12>>}
AcqDates == {CAMPAIGN_START - 1, CAMPAIGN_START, CAMPAIGN_START + 1, CAMPAIGN_END - 1,
             CAMPAIGN_END, CAMPAIGN_END + 1}
AcqMetrics == {NoMetrics, CampaignEngagementMetrics(0, 2), CampaignEngagementMetrics(3, 2),
               CampaignEngagementMetrics(20, 2)}
\* Both ends of random.random().
AcqDraws == {0, 999999}
BonusCustomers == 1..3

InitAcquire ==
    /\ \E d \in AcqDates, roster \in AcqRosters, metrics \in AcqMetrics, enabled \in BOOLEAN :
          acq = [current_date |-> d, roster |-> roster,
                 existing_customers_count |-> Len(roster),
                 campaign_engagement_metrics |-> metrics, enabled |-> enabled,
                 phase |-> "called", error |-> "none", acquisition_probability |-> 0,
                 customers_to_acquire |-> 0, new_customers_data |-> <<>>]
    /\ SimIdle /\ ScoresIdle /\ ImpactIdle /\ DecideIdle /\ GenIdle /\ DrawIdle /\ LifeIdle /\ RunIdsIdle

\* Lines 329-444: the two early returns, and otherwise the probability, the
\* trials, the weekend bonus and the cap.
AcquireDecide ==
    /\ acq # <<>> /\ acq.phase = "called"
    /\ LET current == acq.current_date
           existing == acq.existing_customers_count
       IN  IF ~acq.enabled \/ ~InCampaign(current)
             THEN \E r \in AcqDraws :
                    LET rate == IF ~acq.enabled THEN vanilla_acquisition_rate
                                ELSE CUSTOMER_ACQUISITION_AFTER_CAMPAIGN_END
                    IN  acq' = [acq EXCEPT
                                  !.phase = "returned",
                                  !.new_customers_data =
                                      IF r <= rate THEN <<NewCustomer(existing + 1, current, 0)>>
                                      ELSE <<>>]
           ELSE IF existing = 0
             THEN acq' = [acq EXCEPT !.phase = "raised", !.error = "ZeroDivisionError"]
           ELSE \E trials \in [1..MAX_CUSTOMERS_PER_DAY -> AcqDraws],
                   bonus_draw \in AcqDraws, bonus \in BonusCustomers :
                  LET p == acquisition_probability(current, existing,
                                                   acq.campaign_engagement_metrics)
                      won == Cardinality({t \in DOMAIN trials : trials[t] <= p})
                      extra == IF acquisition_day_factor(current) > 1000
                                    /\ bonus_draw < bonus_customers_chance
                                 THEN bonus ELSE 0
                  IN  acq' = [acq EXCEPT
                                !.phase = "loop",
                                !.acquisition_probability = p,
                                !.customers_to_acquire = customers_to_acquire(won, extra)]
    /\ UNCHANGED notAcq

\* Lines 449-465, one pass of the loop: the customer with the next id and its
\* first order; generate_customer_order may raise, which ends the call.
AcquireCustomer ==
    /\ acq # <<>> /\ acq.phase = "loop"
    /\ Len(acq.new_customers_data) < acq.customers_to_acquire
    /\ LET i == Len(acq.new_customers_data)
           new_customer_data == NewCustomer(acq.existing_customers_count + i + 1, acq.current_date, 1)
       IN  \/ acq' = [acq EXCEPT !.phase = "raised", !.error = "ValueError"]
           \/ \E total \in OrderTotals :
                acq' = [acq EXCEPT !.new_customers_data = Append(@,
                          [new_customer_data EXCEPT !.historical_purchase_frequency =
                                                      <<Order(acq.current_date, total)>>])]
    /\ UNCHANGED notAcq

\* Line 467
AcquireReturn ==
    /\ acq # <<>> /\ acq.phase = "loop"
    /\ Len(acq.new_customers_data) = acq.customers_to_acquire
    /\ acq' = [acq EXCEPT !.phase = "returned"]
    /\ UNCHANGED notAcq

NextAcquire == AcquireDecide \/ AcquireCustomer \/ AcquireReturn

SpecAcquire == InitAcquire /\ [][NextAcquire]_vars

Returned == acq # <<>> /\ acq.phase = "returned"
ReturnedIds == {acq.new_customers_data[j].id : j \in DOMAIN acq.new_customers_data}
RosterIds == {acq.roster[j] : j \in DOMAIN acq.roster}

\* C15: the customers returned by decide_new_customer_acquisition have
\* pairwise distinct ids, none of which is the id of a customer of the roster.
C15_NewIdsAreFresh ==
    Returned =>
        /\ Cardinality(ReturnedIds) = Len(acq.new_customers_data)
        /\ ReturnedIds \cap RosterIds = {}

\* The part of C15 that holds: the returned ids are pairwise distinct.
C15_NewIdsPairwiseDistinct ==
    Returned => Cardinality(ReturnedIds) = Len(acq.new_customers_data)

OrderReturned == gen # <<>> /\ gen.phase = "done"

C17_WitnessSingleLine ==
    /\ OrderReturned
    /\ Len(gen.order.order_lines) = 1
    /\ gen.order.order_lines[1].quantity = 1

(***************************************************************************)
(* SpecLifecycle: one customer classified by                               *)
(* CustomerAgent.update_lifecycle_state, by                                *)
(* update_customer_lifecycle_state on the customer's own record, and by    *)
(* the rebuild-and-update of CustomerAgent.step.  Amounts are in cents.    *)
(***************************************************************************)
\* The rebuilt record keeps the creation date of the customer.
rebuilt_lifecycle_state_created_earlier(a, current) ==
    update_customer_lifecycle_state(a.historical_orders, a.created_at, current)

\* CustomerAgent.step: the Customer rebuilt with created_at=current_date, run
\* through update_customer_lifecycle_state, and its state synced back.
rebuilt_lifecycle_state(a, current) ==
    update_customer_lifecycle_state(a.historical_orders, current, current)

\* n orders of one total, one every step days, the last on day last
OrderRun(n, last, step, total) == [k \in 1..n |-> Order(last - (n - k) * step, total)]

LifeHistories ==
    { <<>>,
      <<Order(-200, 6000)>>,
      <<Order(-180, 6000)>>,
      <<Order(-100, 4000)>>,
      \* the same two orders, oldest first and newest first
      <<Order(-300, 3000), Order(-10, 3000)>>,
      <<Order(-10, 3000), Order(-300, 3000)>>,
      <<Order(-20, 3000), Order(-5, 9000)>>,
      \* ten recent orders of high value
      OrderRun(10, -3, 7, 6000),
      \* five orders of the older half year and three recent ones
      OrderRun(5, -200, 10, 2000) \o OrderRun(3, -30, 10, 2000) }
LifeDates == {0, 1, 44}
LifeCreated == {-400, 0}

LifeAgent(orders, is_new, created_at) ==
    [historical_orders |-> orders, is_new_customer |-> is_new, created_at |-> created_at,
     avg_order_value |-> IF orders = <<>> THEN 0 ELSE SumSpent(orders) \div Len(orders),
     lifecycle_state |-> "ACTIVE", days_since_last_order |-> 0]

InitLifecycle ==
    /\ \E orders \in LifeHistories, is_new \in BOOLEAN, created \in LifeCreated, d \in LifeDates :
          life = [agent |-> LifeAgent(orders, is_new, created), current_date |-> d,
                  agent_state |-> "unset", customer_state |-> "unset", step_state |-> "unset"]
    /\ SimIdle /\ ScoresIdle /\ ImpactIdle /\ DecideIdle /\ GenIdle /\ DrawIdle /\ AcqIdle /\ RunIdsIdle

ClassifyAgent ==
    /\ life # <<>> /\ life.agent_state = "unset"
    /\ life' = [life EXCEPT !.agent_state =
                    update_lifecycle_state(life.agent, life.current_date).lifecycle_state]
    /\ UNCHANGED notLife

ClassifyCustomer ==
    /\ life # <<>> /\ life.customer_state = "unset"
    /\ life' = [life EXCEPT !.customer_state =
                    update_customer_lifecycle_state(life.agent.historical_orders,
                                                    life.agent.created_at, life.current_date)]
    /\ UNCHANGED notLife

ClassifyInStep ==
    /\ life # <<>> /\ life.step_state = "unset"
    /\ life' = [life EXCEPT !.step_state = rebuilt_lifecycle_state(life.agent, life.current_date)]
    /\ UNCHANGED notLife

NextLifecycle == ClassifyAgent \/ ClassifyCustomer \/ ClassifyInStep

SpecLifecycle == InitLifecycle /\ [][NextLifecycle]_vars

LifeOrders == life.agent.historical_orders
MostRecentOrderDate ==
    CHOOSE d \in {LifeOrders[k].order_date : k \in DOMAIN LifeOrders} :
        \A k \in DOMAIN LifeOrders : LifeOrders[k].order_date <= d
\* There is a most recent order and it is more than 180 days old.
LastOrderOver180Days ==
    LifeOrders # <<>> /\ life.current_date - MostRecentOrderDate > 180
HistorySorted ==
    \A j, k \in DOMAIN LifeOrders : j < k => LifeOrders[j].order_date <= LifeOrders[k].order_date

\* C23: each of the two lifecycle classifiers gives DORMANT exactly when the
\* customer's most recent order is more than 180 days before the current
\* date, whatever the history, empty and unsorted ones included.
C23_DormantIffOver180Days ==
    life # <<>> =>
        /\ life.agent_state # "unset" =>
              (life.agent_state = "DORMANT" <=> LastOrderOver180Days)
        /\ life.customer_state # "unset" =>
              (life.customer_state = "DORMANT" <=> LastOrderOver180Days)

\* The part of C23 that holds: on a history that is not empty and is sorted
\* by date both classifiers give DORMANT exactly over 180 days.
C23_DormantIffOver180DaysSorted ==
    (life # <<>> /\ LifeOrders # <<>> /\ HistorySorted) =>
        /\ life.agent_state # "unset" =>
              (life.agent_state = "DORMANT" <=> LastOrderOver180Days)
        /\ life.customer_state # "unset" =>
              (life.customer_state = "DORMANT" <=> LastOrderOver180Days)

\* The agent classifier alone, and the customer classifier alone.
C23_AgentClassifier ==
    (life # <<>> /\ life.agent_state # "unset") =>
        (life.agent_state = "DORMANT" <=> LastOrderOver180Days)
C23_CustomerClassifier ==
    (life # <<>> /\ life.customer_state # "unset") =>
        (life.customer_state = "DORMANT" <=> LastOrderOver180Days)

LastListedOrderDate == LifeOrders[Len(LifeOrders)].order_date
MeanOrderTotalOver50 == SumSpent(LifeOrders) > 5000 * Len(LifeOrders)

\* C30: the state that the step stores on the agent, computed on the record
\* rebuilt with created_at = current_date, is never AT_RISK: ACTIVE for an
\* empty history, DORMANT when the last order of the list is more than 180
\* days old, CHAMPION when the mean order total is over 50 and the history
\* has more than one order, ACTIVE otherwise.
C30_StoredStateNeverAtRisk ==
    (life # <<>> /\ life.step_state # "unset") =>
        /\ life.step_state # "AT_RISK"
        /\ life.step_state =
              IF LifeOrders = <<>> THEN "ACTIVE"
              ELSE IF life.current_date - LastListedOrderDate > 180 THEN "DORMANT"
              ELSE IF MeanOrderTotalOver50 /\ Len(LifeOrders) > 1 THEN "CHAMPION"
              ELSE "ACTIVE"

\* A customer created long ago whose only order is 100 days old: AT_RISK on
\* its own record, ACTIVE as stored by the step.
C30_Witness ==
    /\ life # <<>>
    /\ life.agent.created_at < life.current_date
    /\ life.customer_state = "AT_RISK"
    /\ life.step_state = "ACTIVE"

InWindowCall ==
    acq # <<>> /\ acq.enabled
    /\ acq.current_date >= CAMPAIGN_START /\ acq.current_date <= CAMPAIGN_END

\* C24: with campaign effects enabled and the date in the campaign window,
\* decide_new_customer_acquisition returns at most MAX_CUSTOMERS_PER_DAY
\* customers, the weekend bonus included, each with exactly one order in
\* its history and tickets_count 1.
C24_AtMostMaxCustomersWithOneOrder ==
    (InWindowCall /\ Returned) =>
        /\ Len(acq.new_customers_data) <= MAX_CUSTOMERS_PER_DAY
        /\ \A j \in DOMAIN acq.new_customers_data :
              /\ Len(acq.new_customers_data[j].historical_purchase_frequency) = 1
              /\ acq.new_customers_data[j].tickets_count = 1

\* A weekend day of the campaign on which the maximum is returned.
C24_Witness ==
    /\ InWindowCall /\ Returned
    /\ acq.current_date % 7 >= 5
    /\ Len(acq.new_customers_data) = MAX_CUSTOMERS_PER_DAY

\* C25: in the campaign window the saturation factor is defined for every
\* number of existing customers, the empty base included, for which it is
\* 1.0, and it is above its minimum while the base is small.
C25_SaturationDefinedAndGraded ==
    (InWindowCall /\ acq.phase # "called") =>
        /\ acq.error # "ZeroDivisionError"
        /\ acq.existing_customers_count = 0 => acq.phase \in {"loop", "returned"}
        /\ acq.existing_customers_count = 1 =>
              saturation_factor(1) > CUSTOMER_ACQUISITION_SATURATION_MIN_FACTOR

\* What the code computes instead: the minimum factor for every base that is
\* not empty.
C25_SaturationAlwaysMinimum ==
    (InWindowCall /\ acq.phase # "called" /\ acq.existing_customers_count > 0) =>
        saturation_factor(acq.existing_customers_count)
            = CUSTOMER_ACQUISITION_SATURATION_MIN_FACTOR

\* One pass of the loop has added a line that is not the last planned one.
NonFinalLineAdded ==
    /\ gen # <<>> /\ gen.phase = "lines"
    /\ gen.i < gen.num_items - 1
    /\ Len(gen'.order_lines) = Len(gen.order_lines) + 1
AddedLineCost ==
    gen'.order_lines[Len(gen'.order_lines)].product_price
        * gen'.order_lines[Len(gen'.order_lines)].quantity

\* C26: a line that is not the last planned item costs, price times
\* quantity, at most 60% of the budget that remained before it was added.
C26_NonFinalLineWithin60Percent ==
    [][NonFinalLineAdded => 10 * AddedLineCost <= 6 * gen.remaining_value]_vars

\* The part of C26 that holds: a non-final line of quantity 2 or more is
\* within 60% of the remaining budget.
C26_NonFinalLineAboveOneWithin60Percent ==
    [][(NonFinalLineAdded /\ gen'.order_lines[Len(gen'.order_lines)].quantity > 1) =>
          10 * AddedLineCost <= 6 * gen.remaining_value]_vars

(***************************************************************************)
(* SpecOrderIds: the order ids of one run.  Every order of a day is        *)
(* generated by generate_customer_order with the model's current_date,     *)
(* which moves on by one day at the end of new_day.                        *)
(***************************************************************************)
InitOrderIds ==
    /\ run_ids = [current_date |-> CAMPAIGN_START, order_ids |-> <<>>, order_dates |-> <<>>]
    /\ SimIdle /\ ScoresIdle /\ ImpactIdle /\ DecideIdle /\ GenIdle /\ DrawIdle /\ AcqIdle
    /\ LifeIdle

\* An agent's step generates an order on the current date.
OrderIdGenerated ==
    /\ run_ids # <<>>
    /\ run_ids.current_date <= CAMPAIGN_END
    /\ Len(run_ids.order_ids) < MaxIdOrders
    /\ \E suffix \in OrderIdDraws :
          run_ids' = [run_ids EXCEPT
                        !.order_ids = Append(@, order_id_of(run_ids.current_date, suffix)),
                        !.order_dates = Append(@, run_ids.current_date)]
    /\ UNCHANGED notRunIds

\* new_day: self.current_date += timedelta(days=1)
OrderIdsNextDay ==
    /\ run_ids # <<>>
    /\ run_ids.current_date <= CAMPAIGN_END
    /\ run_ids' = [run_ids EXCEPT !.current_date = @ + 1]
    /\ UNCHANGED notRunIds

NextOrderIds == OrderIdGenerated \/ OrderIdsNextDay

SpecOrderIds == InitOrderIds /\ [][NextOrderIds]_vars

\* C27: the orders generated in one run have pairwise distinct order ids,
\* two orders generated on the same day included.
C27_OrderIdsDistinct ==
    run_ids # <<>> =>
        \A j, k \in DOMAIN run_ids.order_ids :
            j # k => run_ids.order_ids[j] # run_ids.order_ids[k]

\* The part of C27 that holds: orders generated on different days have
\* different ids.
C27_OrderIdsOfDifferentDaysDistinct ==
    run_ids # <<>> =>
        \A j, k \in DOMAIN run_ids.order_ids :
            run_ids.order_dates[j] # run_ids.order_dates[k] =>
                run_ids.order_ids[j] # run_ids.order_ids[k]

(***************************************************************************)
(* The aggregates of a run (Spec).                                         *)
(***************************************************************************)
\* The orders an agent has appended to its history since the run began.
RunOrders(k) ==
    SubSeq(agents[k].historical_orders,
           Len(customers[k].historical_purchase_frequency) + 1,
           Len(agents[k].historical_orders))
RunOrderTotals(k) == [j \in DOMAIN RunOrders(k) |-> RunOrders(k)[j].total_spent]
NewOrderCounts == [k \in DOMAIN agents |-> agents[k].new_order_count]
RunOrderCounts == [k \in DOMAIN agents |-> Len(RunOrders(k))]
RunRevenues == [k \in DOMAIN agents |-> SumSeq(RunOrderTotals(k))]

\* C28: received_orders_count is the sum of the agents' new_order_count and
\* the number of orders appended to the agents' histories during the run,
\* generated_revenue is the sum of total_spent of those orders, and neither
\* aggregate ever goes down; this holds between any two agent steps, so
\* after every completed day.
C28_AggregatesMatchAgents ==
    /\ [](agents # <<>> =>
            /\ received_orders_count = SumSeq(NewOrderCounts)
            /\ received_orders_count = SumSeq(RunOrderCounts)
            /\ generated_revenue = SumSeq(RunRevenues))
    /\ [][/\ received_orders_count' >= received_orders_count
           /\ generated_revenue' >= generated_revenue]_vars

\* A completed day after which two orders of the run are counted.
C28_Witness ==
    /\ DayFinished
    /\ received_orders_count = 2
    /\ SumSeq(RunOrderCounts) = 2
    /\ generated_revenue > 0

OrderCounters(a) ==
    <<a.total_orders, a.new_order_count, a.tickets_count, Len(a.historical_orders)>>
SteppedToday(id) == {k \in DOMAIN day_log : day_log[k].op = "step" /\ day_log[k].id = id}

\* C29: an agent places at most one order a day: its total_orders,
\* new_order_count, tickets_count and the length of its historical_orders
\* change only in its own step, which has not run before on that day, and
\* each by at most 1.
C29_AtMostOneOrderPerAgentAndDay ==
    [][\A k \in DOMAIN agents :
          OrderCounters(agents'[k]) # OrderCounters(agents[k]) =>
              /\ pc = "agents" /\ k = idx
              /\ SteppedToday(agents[k].customer_id) = {}
              /\ current_date' = current_date
              /\ \A c \in 1..4 :
                    OrderCounters(agents'[k])[c] - OrderCounters(agents[k])[c] \in {0, 1}
      ]_vars

\* The second agent of a roster has placed an order on a day on which the
\* first had placed one before it.
C29_Witness ==
    /\ pc = "agents" /\ Len(agents) = 2 /\ idx = 3
    /\ day_log[2].outcome = "order" /\ day_log[3].outcome = "order"
    /\ agents[1].new_order_count = 1 /\ agents[2].new_order_count = 1

=============================================================================
